---------------------------- MODULE Spec2Model ----------------------------
(*************************************************************************)
(* Model of the NYC collisions medallion pipeline (bronze -> silver ->   *)
(* gold): the extraction cache, the three standardization transforms,    *)
(* the enrichment joins, the aggregation and the orchestration shell.    *)
(*                                                                       *)
(* Conventions                                                           *)
(*   - a nullable value is a sequence of length <= 1: <<>> is null,      *)
(*     <<v>> is the value v (polars' null / non-null);                   *)
(*   - a date text is [sep, f]: "12/31/2023" is                          *)
(*     [sep |-> "/", f |-> <<12, 31, 2023>>], "2024-01-01" is            *)
(*     [sep |-> "-", f |-> <<2024, 1, 1>>];                              *)
(*   - a Float64 of the weather table is an integer number of tenths.    *)
(*************************************************************************)
EXTENDS Integers, Sequences, FiniteSets, TLC

-----------------------------------------------------------------------------
(* Bounds of the model *)

\* longest raw table drawn for a single standardization transform
MaxRows == 2
\* longest raw table of each source drawn for the enrichment / aggregation chain
MaxJoinRows == 2
\* number of pipeline runs and direct calls in one behaviour
MaxCalls == 2

-----------------------------------------------------------------------------
(* Nullable values *)

Null == <<>>
Some(v) == <<v>>
IsNull(o) == Len(o) = 0
NotNull(o) == Len(o) = 1
Get(o) == o[1]
\* polars fill_null(v)
fill_null(o, v) == IF IsNull(o) THEN Some(v) ELSE o

(* Sequence helpers *)

RECURSIVE SeqSum(_)
SeqSum(s) == IF s = <<>> THEN 0 ELSE Head(s) + SeqSum(Tail(s))

RECURSIVE Flatten(_)
Flatten(ss) == IF ss = <<>> THEN <<>> ELSE Head(ss) \o Flatten(Tail(ss))

Range(s) == {s[i] : i \in DOMAIN s}

SeqsUpTo(S, n) == UNION {[1..k -> S] : k \in 0..n}

\* a sequence holding the elements of a finite set, in a fixed arbitrary order
RECURSIVE SetToSeq(_)
SetToSeq(S) ==
    IF S = {} THEN <<>>
    ELSE LET x == CHOOSE y \in S : TRUE IN <<x>> \o SetToSeq(S \ {x})

-----------------------------------------------------------------------------
(* Calendar dates *)

IsLeap(y) == (y % 4 = 0 /\ y % 100 # 0) \/ y % 400 = 0

DaysInMonth(y, m) ==
    IF m = 2 THEN (IF IsLeap(y) THEN 29 ELSE 28)
    ELSE IF m \in {4, 6, 9, 11} THEN 30 ELSE 31

ValidYMD(y, m, d) == y \in 1..9999 /\ m \in 1..12 /\ d \in 1..DaysInMonth(y, m)

\* days since 1970-01-01 of a proleptic Gregorian date
DaysFromCivil(dt) ==
    LET yy  == IF dt.m <= 2 THEN dt.y - 1 ELSE dt.y
        era == yy \div 400
        yoe == yy - era * 400
        mp  == IF dt.m > 2 THEN dt.m - 3 ELSE dt.m + 9
        doy == (153 * mp + 2) \div 5 + dt.d - 1
        doe == yoe * 365 + yoe \div 4 - yoe \div 100 + doy
    IN era * 146097 + doe - 719468

\* fault variant of weekday: Monday is 0 and Sunday 6, as datetime.weekday() has it
weekday_from_zero(dt) == (DaysFromCivil(dt) + 3) % 7

\* polars dt.weekday(): ISO weekday, Monday = 1 .. Sunday = 7
weekday(dt) == ((DaysFromCivil(dt) + 3) % 7) + 1
\* polars dt.year(), dt.month()
year(dt) == dt.y
month(dt) == dt.m

DateLess(a, b) == DaysFromCivil(a) < DaysFromCivil(b)

\* str.to_date("%m/%d/%Y"), strict: <<date>> or <<>> when the text does not parse
to_date_mdy(t) ==
    IF t.sep = "/" /\ ValidYMD(t.f[3], t.f[1], t.f[2])
    THEN Some([y |-> t.f[3], m |-> t.f[1], d |-> t.f[2]])
    ELSE Null

\* str.to_date("%Y-%m-%d"), strict: <<date>> or <<>> when the text does not parse
to_date_ymd(t) ==
    IF t.sep = "-" /\ ValidYMD(t.f[1], t.f[2], t.f[3])
    THEN Some([y |-> t.f[1], m |-> t.f[2], d |-> t.f[3]])
    ELSE Null

-----------------------------------------------------------------------------
(* Results of a transform: the table it returns, or the exception it raises *)

NoError == "none"
Ok(df) == [err |-> NoError, df |-> df]
Raise(e) == [err |-> e, df |-> <<>>]

-----------------------------------------------------------------------------
(* Silver layer: collisions *)

\* GoldProcessor.METRIC_COLS, also silver.collisions.metric_cols of the configuration
METRIC_COLS ==
    {"number_of_persons_injured", "number_of_persons_killed",
     "number_of_pedestrians_injured", "number_of_pedestrians_killed",
     "number_of_cyclist_injured", "number_of_cyclist_killed",
     "number_of_motorist_injured", "number_of_motorist_killed"}

\* cast(pl.Int32), strict: the value, or null when it does not fit (the cast raises)
cast_int32(o) ==
    IF IsNull(o) THEN o
    ELSE IF Get(o) >= -2147483647 - 1 /\ Get(o) <= 2147483647 THEN o ELSE Null

\* fault variant of CollisionsDateFilter: rows before 2020 are dropped as well
CollisionsDateFilterRecent(r) ==
    /\ NotNull(r.crash_date)
    /\ NotNull(to_date_mdy(Get(r.crash_date))) => Get(to_date_mdy(Get(r.crash_date))).y >= 2020

\* .filter(pl.col("CRASH DATE").is_not_null())
CollisionsDateFilter(r) == NotNull(r.crash_date)

\* the two with_columns blocks of process_collisions on one row that passed the filter
CollisionsRow(r) ==
    LET date == to_date_mdy(Get(r.crash_date))
    IN [crash_date |-> r.crash_date,
        borough    |-> fill_null(r.borough, "UNKNOWN"),
        zip_code   |-> r.zip_code,
        metrics    |-> [c \in METRIC_COLS |-> cast_int32(fill_null(r.metrics[c], 0))],
        date       |-> date,
        is_weekend |-> IF IsNull(date) THEN Null ELSE Some(weekday(Get(date)) >= 6),
        year       |-> IF IsNull(date) THEN Null ELSE Some(year(Get(date))),
        month      |-> IF IsNull(date) THEN Null ELSE Some(month(Get(date)))]

\* the query of process_collisions, collected: strict parsing raises on a date text
\* that is not month/day/year and on a metric that does not fit Int32
CollisionsTransform(df) ==
    LET kept == SelectSeq(df, CollisionsDateFilter)
        out  == [i \in DOMAIN kept |-> CollisionsRow(kept[i])]
    IN IF \E i \in DOMAIN out :
             \/ IsNull(out[i].date)
             \/ \E c \in METRIC_COLS : IsNull(out[i].metrics[c])
       THEN Raise("ComputeError")
       ELSE Ok(out)

-----------------------------------------------------------------------------
(* Silver layer: holidays *)

\* the select and with_columns of process_holidays on one row; a null date stays null
HolidaysRow(r) ==
    LET date == IF IsNull(r.date) THEN Null ELSE to_date_ymd(Get(r.date))
    IN [date         |-> date,
        holiday_name |-> r.name,
        types        |-> r.types,
        year         |-> IF IsNull(date) THEN Null ELSE Some(year(Get(date))),
        month        |-> IF IsNull(date) THEN Null ELSE Some(month(Get(date)))]

\* fault variant of unique: unique(subset=["date"]), one row per date
unique_by_date(df) ==
    SetToSeq({CHOOSE r \in Range(df) : r.date = d : d \in {x.date : x \in Range(df)}})

\* .unique(): one row per distinct row, in an unspecified order
unique(df) == SetToSeq(Range(df))

HolidaysTransform(df) ==
    IF \E i \in DOMAIN df : NotNull(df[i].date) /\ IsNull(to_date_ymd(Get(df[i].date)))
    THEN Raise("ComputeError")
    ELSE Ok(unique([i \in DOMAIN df |-> HolidaysRow(df[i])]))

-----------------------------------------------------------------------------
(* Silver layer: weather *)

\* The text of a number is [pad, val]: pad says the text carries surrounding
\* whitespace, val is <<n>> for the integer n and <<>> for a text that is no number.

\* .cast(pl.String).str.strip_chars()
strip_chars(o) == IF IsNull(o) THEN o ELSE Some([pad |-> FALSE, val |-> Get(o).val])

\* a stripped text parses when it carries no whitespace and is a number
Parses(o) == IsNull(o) \/ (~Get(o).pad /\ NotNull(Get(o).val))

\* .cast(pl.Float64) of a parsing text, in tenths: "250" is 250.0, that is 2500 tenths
cast_float(o) == IF IsNull(o) THEN Null ELSE Some(10 * Get(Get(o).val))

\* .cast(pl.Int32, strict=False): null for a text that is no integer
cast_int_lenient(o) ==
    IF IsNull(o) \/ ~Parses(o) THEN Null ELSE cast_int32(Get(o).val)

\* fault variant of div10: the reading is taken as it comes
div10_none(o) == o

\* x / 10 on a Float64 in tenths that is a whole number
div10(o) == IF IsNull(o) THEN Null ELSE Some(Get(o) \div 10)

\* .round(1): a value in tenths is already at one decimal place
round1(o) == o

\* fault variant of gt0: a reading of 0 counts as well
ge0(o) == Get(fill_null(IF IsNull(o) THEN Null ELSE Some(Get(o) >= 0), FALSE))

\* x > 0 with null propagation, then fill_null(False)
gt0(o) == Get(fill_null(IF IsNull(o) THEN Null ELSE Some(Get(o) > 0), FALSE))

\* x == 1 with null propagation
eq1(o) == IF IsNull(o) THEN Null ELSE Some(Get(o) = 1)

\* pl.any_horizontal over two nullable booleans (Kleene or)
any_horizontal(a, b) ==
    IF (NotNull(a) /\ Get(a)) \/ (NotNull(b) /\ Get(b)) THEN Some(TRUE)
    ELSE IF IsNull(a) \/ IsNull(b) THEN Null
    ELSE Some(FALSE)

\* "2020-01-01", the cutoff text of process_weather
WeatherCutoff == [sep |-> "-", f |-> <<2020, 1, 1>>]

\* fault variant of TextGE: the comparison is strict
TextGT(t, u) ==
    /\ t.sep = "-"
    /\ \/ t.f[1] > u.f[1]
       \/ t.f[1] = u.f[1] /\ t.f[2] > u.f[2]
       \/ t.f[1] = u.f[1] /\ t.f[2] = u.f[2] /\ t.f[3] > u.f[3]

\* t >= u on texts, u a year-month-day text: a month/day/year text starts with the
\* digit 0 or 1 and sorts before any text starting with 2; two zero-padded
\* year-month-day texts compare as their fields do
TextGE(t, u) ==
    /\ t.sep = "-"
    /\ \/ t.f[1] > u.f[1]
       \/ t.f[1] = u.f[1] /\ t.f[2] > u.f[2]
       \/ t.f[1] = u.f[1] /\ t.f[2] = u.f[2] /\ t.f[3] >= u.f[3]

\* .filter(pl.col("DATE") >= "2020-01-01").filter(pl.col("DATE").is_not_null())
WeatherDateFilter(r) == NotNull(r.DATE) /\ TextGE(Get(r.DATE), WeatherCutoff)

WeatherNumericCols == {"TMAX", "TMIN", "PRCP", "SNOW"}

\* the with_columns, select and partition keys of process_weather on one kept row
WeatherRow(r) ==
    LET date == to_date_ymd(Get(r.DATE))
        num(c) == cast_float(strip_chars(r[c]))
    IN [date             |-> date,
        temp_max_c       |-> round1(div10(num("TMAX"))),
        temp_min_c       |-> round1(div10(num("TMIN"))),
        precipitation_mm |-> div10(num("PRCP")),
        snow_mm          |-> num("SNOW"),
        is_foggy         |-> fill_null(any_horizontal(
                                 eq1(cast_int_lenient(strip_chars(r.WT01))),
                                 eq1(cast_int_lenient(strip_chars(r.WT02)))), FALSE),
        has_rain         |-> Some(gt0(num("PRCP"))),
        has_snow         |-> Some(gt0(num("SNOW"))),
        year             |-> IF IsNull(date) THEN Null ELSE Some(year(Get(date))),
        month            |-> IF IsNull(date) THEN Null ELSE Some(month(Get(date)))]

\* the query of process_weather, collected: the strict casts raise on a kept row
\* whose date text or numeric text does not parse
WeatherTransform(df) ==
    LET kept == SelectSeq(df, WeatherDateFilter)
    IN IF \E i \in DOMAIN kept :
             \/ IsNull(to_date_ymd(Get(kept[i].DATE)))
             \/ \E c \in WeatherNumericCols : ~Parses(strip_chars(kept[i][c]))
       THEN Raise("ComputeError")
       ELSE Ok([i \in DOMAIN kept |-> WeatherRow(kept[i])])

-----------------------------------------------------------------------------
(* Gold layer: enrichment *)

\* fault variant of GoldYearFilter: the year 2020 itself is left out
GoldYearFilterAfter(r) == NotNull(r.date) /\ year(Get(r.date)) > 2020

\* .filter(pl.col("date").dt.year() >= 2020): a null date compares to null and is dropped
GoldYearFilter(r) == NotNull(r.date) /\ year(Get(r.date)) >= 2020

\* join keys: exact equality of two non-null dates
JoinMatch(l, r) == NotNull(l.date) /\ NotNull(r.date) /\ Get(l.date) = Get(r.date)

\* the columns a left join adds from the holidays table, all null without a match;
\* its year and month collide with those of the collisions and get the suffix _right
HolidayCols(h) ==
    [holiday_name |-> h.holiday_name, types |-> h.types,
     year_right |-> h.year, month_right |-> h.month]
NoHoliday ==
    [holiday_name |-> Null, types |-> Null, year_right |-> Null, month_right |-> Null]

\* weather_clean = lf_weather.select([...]) and the columns the join adds from it
WeatherCols(w) ==
    [temp_max_c |-> w.temp_max_c, temp_min_c |-> w.temp_min_c,
     has_rain |-> w.has_rain, has_snow |-> w.has_snow, is_foggy |-> w.is_foggy]
\* fault variant of NoWeather: a collision without weather gets a temperature of 0
NoWeatherZero ==
    [temp_max_c |-> Some(0), temp_min_c |-> Some(0),
     has_rain |-> Null, has_snow |-> Null, is_foggy |-> Null]

NoWeather ==
    [temp_max_c |-> Null, temp_min_c |-> Null,
     has_rain |-> Null, has_snow |-> Null, is_foggy |-> Null]

\* how="left" join of one left row with a right table given as rows of the join key
\* (date) and the columns the join adds (cols): one output row per matching right row, in the
\* right table's order, and one row of nulls when nothing matches
LeftJoinRow(l, right, none) ==
    LET hits == SelectSeq(right, LAMBDA r : JoinMatch(l, r))
    IN IF hits = <<>> THEN <<l @@ none>>
       ELSE [i \in DOMAIN hits |-> l @@ hits[i].cols]

\* .join(right, on="date", how="left")
LeftJoin(left, right, none) ==
    Flatten([i \in DOMAIN left |-> LeftJoinRow(left[i], right, none)])

\* pl.col("types").list.contains(x): null on a null list
list_contains(types, x) ==
    IF IsNull(types) THEN Null ELSE Some(x \in Range(Get(types)))

\* fault variant of ImpactFlag: only the first of the two types is looked for
ImpactFlagFirstOnly(types, x, y) == fill_null(list_contains(types, x), FALSE)

\* (a | b).fill_null(False) of an impact flag
ImpactFlag(types, x, y) ==
    fill_null(any_horizontal(list_contains(types, x), list_contains(types, y)), FALSE)

\* the with_columns of _enrich_collisions on one joined row
EnrichedRow(j) ==
    [high_impact_holiday    |-> ImpactFlag(j.types, "Public", "Bank"),
     partial_impact_holiday |-> ImpactFlag(j.types, "School", "Authorities"),
     low_impact_holiday     |-> ImpactFlag(j.types, "Optional", "Observance"),
     holiday_name           |-> fill_null(j.holiday_name, "Non-Holiday"),
     has_rain               |-> fill_null(j.has_rain, FALSE),
     has_snow               |-> fill_null(j.has_snow, FALSE),
     is_foggy               |-> fill_null(j.is_foggy, FALSE),
     max_temp               |-> j.temp_max_c,
     min_temp               |-> j.temp_min_c] @@ j

\* GoldProcessor._enrich_collisions
_enrich_collisions(lf_collisions, lf_holidays, lf_weather) ==
    LET recent == SelectSeq(lf_collisions, GoldYearFilter)
        holidays == [i \in DOMAIN lf_holidays |->
                        [date |-> lf_holidays[i].date, cols |-> HolidayCols(lf_holidays[i])]]
        weather_clean == [i \in DOMAIN lf_weather |->
                        [date |-> lf_weather[i].date, cols |-> WeatherCols(lf_weather[i])]]
        withH  == LeftJoin(recent, holidays, NoHoliday)
        withHW == LeftJoin(withH, weather_clean, NoWeather)
    IN [i \in DOMAIN withHW |-> EnrichedRow(withHW[i])]

-----------------------------------------------------------------------------
(* Gold layer: aggregation *)

\* group_cols of _aggregate_stats; a null is a key value like any other
GroupKey(r) ==
    <<r.date, r.borough, r.zip_code, r.is_weekend, r.holiday_name,
      r.high_impact_holiday, r.partial_impact_holiday, r.low_impact_holiday,
      r.has_rain, r.has_snow, r.is_foggy, r.max_temp, r.min_temp>>

\* fault variant of GroupKeys: rows with a null in the key are dropped, as SQL-style
\* grouping libraries do by default
GroupKeysDropNull(df) ==
    {GroupKey(df[i]) : i \in {j \in DOMAIN df : \A n \in 1..13 : NotNull(GroupKey(df[j])[n])}}

\* the keys group_by forms from a table
GroupKeys(df) == {GroupKey(df[i]) : i \in DOMAIN df}

\* fault variant of SumCol: the value of the group's first row instead of the sum
SumColFirst(rows, c) ==
    IF IsNull(rows[1].metrics[c]) THEN 0 ELSE Get(rows[1].metrics[c])

\* pl.col(c).sum() over a group: nulls are skipped
SumCol(rows, c) ==
    SeqSum([i \in DOMAIN rows |->
                IF IsNull(rows[i].metrics[c]) THEN 0 ELSE Get(rows[i].metrics[c])])

\* the fact row of one group: pl.len() and the sums of METRIC_COLS
FactRow(df, k) ==
    LET rows == SelectSeq(df, LAMBDA r : GroupKey(r) = k)
    IN [key             |-> k,
        date            |-> k[1],
        total_accidents |-> Len(rows),
        metrics         |-> [c \in METRIC_COLS |-> SumCol(rows, c)]]

\* .sort("date"): ascending, nulls first; rows of one date in an unspecified order
RECURSIVE SortByDate(_)
SortByDate(S) ==
    IF S = {} THEN <<>>
    ELSE LET first == CHOOSE x \in S : \A y \in S :
                         \/ IsNull(x.date)
                         \/ NotNull(y.date) /\ ~DateLess(Get(y.date), Get(x.date))
         IN <<first>> \o SortByDate(S \ {first})

\* GoldProcessor._aggregate_stats
_aggregate_stats(enriched_df) ==
    SortByDate({FactRow(enriched_df, k) : k \in GroupKeys(enriched_df)})

-----------------------------------------------------------------------------
(* Files and directories *)

Sources == {"collisions", "holidays", "weather"}

\* the sources fetched with download_file_from_url; holidays come from fetch_holidays
DownloadSources == {"collisions", "weather"}

\* partition_by of each write_parquet: (year, month), and (year) for holidays
PartitionKey(s, r) == IF s = "holidays" THEN <<r.year>> ELSE <<r.year, r.month>>

\* df.write_parquet(output_path, partition_by=...): one file per partition key, holding
\* the rows of that key; call tags the call that wrote the file
PartitionFiles(s, df, call) ==
    {[name |-> k, call |-> call,
      rows |-> SelectSeq(df, LAMBDA r : PartitionKey(s, r) = k)] :
        k \in {PartitionKey(s, df[i]) : i \in DOMAIN df}}

\* writing a file replaces a file of the same name and keeps the others
WriteFile(dir, f) == {g \in dir : g.name # f.name} \cup {f}

\* fault variant of clean_output_directory: the directory is only created
clean_keep(dir) == dir

\* utils.clean_output_directory: shutil.rmtree(path), then path.mkdir()
clean_output_directory(dir) == {}

\* pl.scan_parquet(path / "**/*.parquet"): the rows of every file under the directory
ReadDir(dir) == Flatten([i \in DOMAIN SetToSeq(dir) |-> SetToSeq(dir)[i].rows])

-----------------------------------------------------------------------------
(* Layer entry points on an input [kind, data]: kind is the Python type of the
   argument, data the table it is or the table found at the path, null when
   nothing can be read there *)

SupportedKinds == {"DataFrame", "Path"}
InputKinds == SupportedKinds \cup {"int"}

NoInput == [kind |-> "none", data |-> Null]
DataFrame(df) == [kind |-> "DataFrame", data |-> Some(df)]

\* the isinstance chain opening each process_* method and _normalize_input
TypeCheck(in) == IF in.kind \in SupportedKinds THEN NoError ELSE "TypeError"

\* df.columns of a table with rows
Columns(df) == DOMAIN df[1]

\* the columns the query of process_<s> refers to
QueryColumns(s) ==
    IF s = "collisions" THEN {"crash_date", "borough", "zip_code", "metrics"}
    ELSE IF s = "holidays" THEN {"date", "name", "types"}
    ELSE {"DATE", "TMAX", "TMIN", "PRCP", "SNOW", "WT01", "WT02"}

\* the query each process_* method builds and collects; a column the table does not
\* have makes the collect raise
Transform(s, df) ==
    IF df # <<>> /\ ~(QueryColumns(s) \subseteq Columns(df)) THEN Raise("ColumnNotFoundError")
    ELSE IF s = "collisions" THEN CollisionsTransform(df)
    ELSE IF s = "holidays" THEN HolidaysTransform(df)
    ELSE WeatherTransform(df)

\* fault variant of Standardize: no type check, whatever was passed is processed
StandardizeUnchecked(s, in) ==
    IF IsNull(in.data) THEN Transform(s, <<>>) ELSE Transform(s, Get(in.data))

\* SilverProcessor.process_<s> up to q.collect(): the type check comes first, and
\* collecting a scan of a path that holds nothing raises
Standardize(s, in) ==
    IF TypeCheck(in) # NoError THEN Raise(TypeCheck(in))
    ELSE IF IsNull(in.data) THEN Raise("FileNotFoundError")
    ELSE Transform(s, Get(in.data))

\* the three _normalize_input calls of process_gold_data, in order, then
\* _enrich_collisions and _aggregate_stats
GoldCompute(in) ==
    IF \E s \in Sources : TypeCheck(in[s]) # NoError
    THEN [err |-> "TypeError", enriched |-> <<>>, df |-> <<>>]
    ELSE IF \E s \in Sources : IsNull(in[s].data)
    THEN [err |-> "FileNotFoundError", enriched |-> <<>>, df |-> <<>>]
    ELSE LET e == _enrich_collisions(Get(in["collisions"].data),
                                     Get(in["holidays"].data),
                                     Get(in["weather"].data))
         IN [err |-> NoError, enriched |-> e, df |-> _aggregate_stats(e)]

\* the two files process_gold_data writes
GoldFile(n, df, call) == [name |-> n, call |-> call, rows |-> df]

-----------------------------------------------------------------------------
(* Orchestration: utils.validate_dataframe, run_pipeline and main *)

\* critical_cols of the three validate_dataframe calls of run_pipeline
critical_cols(s) ==
    IF s = "collisions" THEN {"crash_date"}
    ELSE IF s = "holidays" THEN {"date"}
    ELSE {"DATE"}

\* the warnings validate_dataframe logs for a table with rows: one for each critical
\* column that is missing, one for each that holds nulls
dq_warnings(df, cols) ==
    {[col |-> c, kind |-> "missing"] : c \in cols \ Columns(df)}
    \cup
    {[col |-> c, kind |-> "nulls"] :
        c \in {x \in cols \cap Columns(df) : \E i \in DOMAIN df : IsNull(df[i][x])}}

\* fault variant of validate_dataframe: the strict path, nulls in a critical column
\* are an error
validate_dataframe_strict(df, cols) ==
    IF Len(df) = 0 \/ dq_warnings(df, cols) # {} THEN "ValueError" ELSE NoError

\* validate_dataframe raises on an empty table only; nulls in a critical column
\* and a missing critical column are logged
validate_dataframe(df, cols) == IF Len(df) = 0 THEN "ValueError" ELSE NoError

\* KeyboardInterrupt and SystemExit derive from BaseException, not from Exception
IsException(e) == e \notin {NoError, "KeyboardInterrupt", "SystemExit"}

\* run_pipeline: "except Exception" logs and calls sys.exit(1); anything else
\* propagates, and without an exception the function returns
run_pipeline(e) ==
    IF e = NoError THEN [kind |-> "return", code |-> 0]
    ELSE IF IsException(e) THEN [kind |-> "SystemExit", code |-> 1]
    ELSE [kind |-> e, code |-> 0]

\* fault variant of main: no handler of its own for KeyboardInterrupt
main_no_interrupt_handler(sig) ==
    IF sig.kind = "return" THEN 0
    ELSE IF sig.kind = "SystemExit" THEN sig.code
    ELSE 1

\* main: sys.exit(0) after run_pipeline returns, 130 on KeyboardInterrupt, 1 on an
\* Exception; a SystemExit raised inside run_pipeline passes both handlers
main(sig) ==
    IF sig.kind = "return" THEN 0
    ELSE IF sig.kind = "SystemExit" THEN sig.code
    ELSE IF sig.kind = "KeyboardInterrupt" THEN 130
    ELSE 1

ExitStatus(e) == main(run_pipeline(e))

-----------------------------------------------------------------------------
(* Raw rows, as the sources deliver them *)

MDY(m, d, y) == [sep |-> "/", f |-> <<m, d, y>>]
YMD(y, m, d) == [sep |-> "-", f |-> <<y, m, d>>]

Num(n) == Some([pad |-> FALSE, val |-> Some(n)])
Padded(n) == Some([pad |-> TRUE, val |-> Some(n)])
NotANumber == Some([pad |-> FALSE, val |-> Null])

Collision(date, borough, zip, injured) ==
    [crash_date |-> date, borough |-> borough, zip_code |-> zip,
     metrics |-> [c \in METRIC_COLS |->
                     IF c = "number_of_persons_injured" THEN injured ELSE Some(0)]]

Holiday(date, name, types) == [date |-> date, name |-> name, types |-> types]

Weather(date, tmax, tmin, prcp, snow, wt01, wt02) ==
    [DATE |-> date, TMAX |-> tmax, TMIN |-> tmin, PRCP |-> prcp, SNOW |-> snow,
     WT01 |-> wt01, WT02 |-> wt02]

-----------------------------------------------------------------------------
(* What the network serves to a pipeline run *)

\* sources.holidays.years of the configuration
Years == <<2023, 2024>>

\* bodies the collisions URL may serve: no row, a row of a file without the
\* CRASH DATE column, a row without a date, two good rows (one of them before 2020),
\* a row whose date is not month/day/year
RemoteCollisions ==
    {<<>>,
     <<[borough |-> Some("BRONX"), zip_code |-> Null,
        metrics |-> [c \in METRIC_COLS |-> Some(0)]]>>,
     <<Collision(Null, Some("BRONX"), Null, Some(0))>>,
     <<Collision(Some(MDY(1, 1, 2024)), Some("MANHATTAN"), Some("10001"), Some(1)),
       Collision(Some(MDY(12, 31, 2019)), Null, Some("11101"), Null)>>,
     <<Collision(Some(YMD(2024, 1, 1)), Some("QUEENS"), Null, Some(0))>>}

\* bodies the weather URL may serve: no row, a 2024 row, a row before the cutoff
RemoteWeather ==
    {<<>>,
     <<Weather(Some(YMD(2024, 1, 1)), Num(100), Num(50), Num(0), Num(0), Num(0), Num(0))>>,
     <<Weather(Some(YMD(2019, 12, 31)), Num(100), Num(0), Num(0), Num(0), Num(0), Num(0))>>}

Remote(s) == IF s = "collisions" THEN RemoteCollisions ELSE RemoteWeather

\* JSON arrays the holiday API may answer for a year
HolidayResponses(y) ==
    IF y = 2023
    THEN {<<>>,
          <<Holiday(Some(YMD(2023, 12, 25)), Some("Christmas"),
                    Some(<<"National", "Christian">>))>>,
          <<Holiday(Some(MDY(12, 25, 2023)), Some("Christmas"), Some(<<"Bank">>))>>}
    ELSE {<<Holiday(Some(YMD(2024, 1, 1)), Some("New Year"), Some(<<"Public">>))>>}

-----------------------------------------------------------------------------
(* The extraction session: utils.setup_session and the retry loop of its adapter *)

\* Retry(total=3): the number of retries allowed on top of the first attempt
RetryTotal == 3

\* status_forcelist=[500, 502, 503, 504]
status_forcelist == {500, 502, 503, 504}

\* allowed_methods=["HEAD", "GET", "OPTIONS"]
allowed_methods == {"HEAD", "GET", "OPTIONS"}

\* Retry.RETRY_AFTER_STATUS_CODES, honoured because respect_retry_after_header
\* keeps its default
RETRY_AFTER_STATUS_CODES == {413, 429, 503}

\* the outcome of one attempt: a response (its status, and whether it carries a
\* Retry-After header) or an error before any response (status 0)
Response(status, retry_after) ==
    [status |-> status, retry_after |-> retry_after, error |-> "none"]
ConnectError == [status |-> 0, retry_after |-> FALSE, error |-> "connect"]
ReadError == [status |-> 0, retry_after |-> FALSE, error |-> "read"]

\* what the network may do to an attempt
Outcomes ==
    {Response(200, FALSE), Response(404, FALSE), Response(429, FALSE),
     Response(429, TRUE), Response(500, FALSE), Response(502, FALSE),
     Response(503, FALSE), Response(503, TRUE), Response(504, FALSE),
     ConnectError, ReadError}

\* methods a caller may send through the session
Methods == {"GET", "HEAD", "OPTIONS", "POST"}

\* fault variant of is_method_retryable: allowed_methods is not consulted
is_method_retryable_always(m) == TRUE

\* Retry._is_method_retryable
is_method_retryable(m) == m \in allowed_methods

\* Retry.is_retry: is a response to be retried, given what is left of total
is_retry(m, o, total) ==
    /\ is_method_retryable(m)
    /\ \/ o.status \in status_forcelist
       \/ total # 0 /\ o.retry_after /\ o.status \in RETRY_AFTER_STATUS_CODES

\* Retry.increment on an error: a read error is re-raised at once unless the method
\* is retryable; a connection error counts against total for any method
is_error_retryable(m, o) ==
    \/ o.error = "connect"
    \/ o.error = "read" /\ is_method_retryable(m)

\* does urlopen go through Retry.increment after this outcome
WantsRetry(m, o, total) ==
    IF o.error = "none" THEN is_retry(m, o, total) ELSE is_error_retryable(m, o)

\* Retry.increment: total - 1
increment(total) == total - 1

\* Retry.is_exhausted
is_exhausted(total) == total < 0

\* the exception session.get raises when the retries are used up or an error is
\* re-raised
SessionError(o) == IF o.error = "none" THEN "RetryError" ELSE "ConnectionError"

-----------------------------------------------------------------------------
(* State *)

VARIABLES
    calls,        \* number of pipeline runs and direct calls begun so far
    caller,       \* who made the current or last call: "pipeline", "direct", "none"
    pc,           \* position of the current call; "idle" between calls
    src,          \* what the current stage works on: a source, or "gold"
    input,        \* per source, the argument given to the current layer call
    exc,          \* exception that ended the last call, NoError without one
    exit_status,  \* exit status of the last pipeline run, null before it ends
    requests,     \* session.get calls issued by the current extraction call
    bronze,       \* bronze cache: per source, null or the rows of the file
    dl,           \* body of the response being streamed, null outside a download
    hol_i,        \* fetch_holidays: index of the next year to request
    hol_acc,      \* fetch_holidays: rows accumulated so far (all_holidays)
    hol_ok,       \* fetch_holidays: the answers of the years that succeeded
    df_bronze,    \* per source, the raw table in memory, null before it is fetched
    df_silver,    \* per source, the standardized table in memory
    df_enriched,  \* the enriched table in memory
    df_gold,      \* the daily fact table in memory
    silver_dir,   \* per source, the files of its silver directory
    gold_dir,     \* the files of the gold directory
    pending,      \* files the current write has still to produce
    dq_log,       \* warnings logged by the last validate_dataframe call
    method,       \* HTTP method of the request the session's adapter is sending
    retries,      \* what is left of the Retry object's total
    attempts      \* outcomes of the attempts made for that request so far

vars == <<calls, caller, pc, src, input, exc, exit_status, requests, bronze, dl,
          hol_i, hol_acc, hol_ok, df_bronze, df_silver, df_enriched, df_gold,
          silver_dir, gold_dir, pending, dq_log, method, retries, attempts>>

ctl == <<calls, caller>>
hol == <<hol_i, hol_acc, hol_ok>>
mem == <<df_bronze, df_silver, df_enriched, df_gold>>
out_dirs == <<silver_dir, gold_dir>>
net == <<method, retries, attempts>>

NoInputs == [s \in Sources |-> NoInput]
NoTables == [s \in Sources |-> Null]

\* a fresh process: nothing in memory
FreshMemory ==
    /\ df_bronze' = NoTables
    /\ df_silver' = NoTables
    /\ df_enriched' = Null
    /\ df_gold' = Null
    /\ dl' = Null
    /\ hol_i' = 1
    /\ hol_acc' = <<>>
    /\ hol_ok' = <<>>
    /\ pending' = {}
    /\ requests' = 0
    /\ dq_log' = {}

\* the session has sent nothing yet
NoRequest ==
    /\ method = "GET"
    /\ retries = RetryTotal
    /\ attempts = <<>>

Init ==
    /\ calls = 0
    /\ caller = "none"
    /\ pc = "idle"
    /\ src = "collisions"
    /\ input = NoInputs
    /\ exc = NoError
    /\ exit_status = Null
    /\ requests = 0
    /\ bronze = NoTables
    /\ dl = Null
    /\ hol_i = 1
    /\ hol_acc = <<>>
    /\ hol_ok = <<>>
    /\ df_bronze = NoTables
    /\ df_silver = NoTables
    /\ df_enriched = Null
    /\ df_gold = Null
    /\ silver_dir = [s \in Sources |-> {}]
    /\ gold_dir = {}
    /\ pending = {}
    /\ dq_log = {}
    /\ NoRequest

\* the call ends: with e = NoError it returns, otherwise e propagates to the caller;
\* a pipeline run ends the process with the status main gives it
Terminate(e) ==
    /\ pc' = "idle"
    /\ exc' = e
    /\ exit_status' = IF caller = "pipeline" THEN Some(ExitStatus(e)) ELSE Null

-----------------------------------------------------------------------------
(* Bronze layer: BronzeExtractor.download_file_from_url *)

\* a bronze file is the sequence of the data rows written to it so far; reading it
\* back gives the table of those rows
read_file(file) == Get(file)

\* fault variant of CacheHit: the cache is never consulted
CacheHitNever(file) == FALSE

\* output_path.exists()
CacheHit(file) == NotNull(file)

\* fault variant of CleanupPartial: the partial file is left behind
CleanupNone(file) == file

\* the failure handler of the download: the partial file is removed
CleanupPartial(file) == Null

\* the response body is written in chunks, one row per chunk
NextChunk(body, file) == Append(Get(file), body[Len(Get(file)) + 1])

\* fault variant of Complete: the loop stops after the first chunk
CompleteEarly(body, file) == Len(Get(file)) >= 1 \/ Len(body) = 0

\* the loop over the chunks has consumed the whole body
Complete(body, file) == Len(Get(file)) = Len(body)

\* fault variant of StartRun: the run begins by clearing the output directories
StartRunClean ==
    /\ pc = "idle"
    /\ calls < MaxCalls
    /\ calls' = calls + 1
    /\ caller' = "pipeline"
    /\ pc' = "fetch"
    /\ src' = "collisions"
    /\ input' = NoInputs
    /\ exc' = NoError
    /\ exit_status' = Null
    /\ FreshMemory
    /\ silver_dir' = [s \in Sources |-> clean_output_directory(silver_dir[s])]
    /\ gold_dir' = clean_output_directory(gold_dir)
    /\ UNCHANGED bronze
    /\ UNCHANGED net

\* main starts run_pipeline in a fresh process
StartRun ==
    /\ pc = "idle"
    /\ calls < MaxCalls
    /\ calls' = calls + 1
    /\ caller' = "pipeline"
    /\ pc' = "fetch"
    /\ src' = "collisions"
    /\ input' = NoInputs
    /\ exc' = NoError
    /\ exit_status' = Null
    /\ FreshMemory
    /\ UNCHANGED <<bronze, silver_dir, gold_dir>>
    /\ UNCHANGED net

\* cache hit: the destination exists, it is read and parsed, no request is made
DownloadCached ==
    /\ pc = "fetch"
    /\ src \in DownloadSources
    /\ CacheHit(bronze[src])
    /\ df_bronze' = [df_bronze EXCEPT ![src] = Some(read_file(bronze[src]))]
    /\ pc' = "validate"
    /\ UNCHANGED <<ctl, src, input, exc, exit_status, requests, bronze, dl, hol,
                   df_silver, df_enriched, df_gold, out_dirs, pending>>
    /\ UNCHANGED <<net, dq_log>>

\* cache miss: session.get(url, stream=True) answers and the destination is opened
DownloadGetOk ==
    /\ pc = "fetch"
    /\ src \in DownloadSources
    /\ ~CacheHit(bronze[src])
    /\ \E body \in Remote(src) : dl' = Some(body)
    /\ requests' = requests + 1
    /\ bronze' = [bronze EXCEPT ![src] = Some(<<>>)]
    /\ pc' = "stream"
    /\ UNCHANGED <<ctl, src, input, exc, exit_status, hol, mem, out_dirs, pending>>
    /\ UNCHANGED <<net, dq_log>>

\* cache miss: session.get fails for good, before the first byte
DownloadGetFail ==
    /\ pc = "fetch"
    /\ src \in DownloadSources
    /\ ~CacheHit(bronze[src])
    /\ requests' = requests + 1
    /\ bronze' = [bronze EXCEPT ![src] = CleanupPartial(bronze[src])]
    /\ Terminate("RequestException")
    /\ UNCHANGED <<ctl, src, input, dl, hol, mem, out_dirs, pending>>
    /\ UNCHANGED <<net, dq_log>>

\* one more chunk of the body reaches the destination
DownloadChunk ==
    /\ pc = "stream"
    /\ ~Complete(Get(dl), bronze[src])
    /\ bronze' = [bronze EXCEPT ![src] = Some(NextChunk(Get(dl), bronze[src]))]
    /\ UNCHANGED <<ctl, pc, src, input, exc, exit_status, requests, dl, hol, mem,
                   out_dirs, pending>>
    /\ UNCHANGED <<net, dq_log>>

\* the connection breaks while chunks are outstanding: cleanup, then the error
DownloadStreamFail ==
    /\ pc = "stream"
    /\ ~Complete(Get(dl), bronze[src])
    /\ bronze' = [bronze EXCEPT ![src] = CleanupPartial(bronze[src])]
    /\ Terminate("RequestException")
    /\ UNCHANGED <<ctl, src, input, requests, dl, hol, mem, out_dirs, pending>>
    /\ UNCHANGED <<net, dq_log>>

\* the body is complete: the file is parsed and returned with its path
DownloadDone ==
    /\ pc = "stream"
    /\ Complete(Get(dl), bronze[src])
    /\ df_bronze' = [df_bronze EXCEPT ![src] = Some(read_file(bronze[src]))]
    /\ dl' = Null
    /\ pc' = "validate"
    /\ UNCHANGED <<ctl, src, input, exc, exit_status, requests, bronze, hol,
                   df_silver, df_enriched, df_gold, out_dirs, pending>>
    /\ UNCHANGED <<net, dq_log>>

-----------------------------------------------------------------------------
(* Bronze layer: BronzeExtractor.fetch_holidays *)

\* fault variant of Accumulate: a year's rows replace those of the years before
AccumulateLast(acc, rows) == rows

\* rows of the accumulated table after a year answered with rows
Accumulate(acc, rows) == acc \o rows

\* the year's request succeeds: its rows are added
HolidaysRequestOk ==
    /\ pc = "fetch"
    /\ src = "holidays"
    /\ hol_i <= Len(Years)
    /\ \E rows \in HolidayResponses(Years[hol_i]) :
          /\ hol_acc' = Accumulate(hol_acc, rows)
          /\ hol_ok' = Append(hol_ok, rows)
    /\ hol_i' = hol_i + 1
    /\ requests' = requests + 1
    /\ UNCHANGED <<ctl, pc, src, input, exc, exit_status, bronze, dl, mem, out_dirs,
                   pending>>
    /\ UNCHANGED <<net, dq_log>>

\* the year's request fails: logged and skipped
HolidaysRequestFail ==
    /\ pc = "fetch"
    /\ src = "holidays"
    /\ hol_i <= Len(Years)
    /\ hol_i' = hol_i + 1
    /\ requests' = requests + 1
    /\ UNCHANGED <<ctl, pc, src, input, exc, exit_status, bronze, dl, hol_acc, hol_ok,
                   mem, out_dirs, pending>>
    /\ UNCHANGED <<net, dq_log>>

\* the error fetch_holidays ends with once every year was tried
HolidaysOutcome(acc) == IF acc = <<>> THEN "RuntimeError" ELSE NoError

\* after the last year: "No holidays data fetched", or the combined table is
\* written to the destination and returned
HolidaysFinish ==
    /\ pc = "fetch"
    /\ src = "holidays"
    /\ hol_i > Len(Years)
    /\ IF HolidaysOutcome(hol_acc) # NoError
       THEN /\ Terminate(HolidaysOutcome(hol_acc))
            /\ UNCHANGED <<bronze, df_bronze>>
       ELSE /\ bronze' = [bronze EXCEPT !["holidays"] = Some(hol_acc)]
            /\ df_bronze' = [df_bronze EXCEPT !["holidays"] = Some(hol_acc)]
            /\ pc' = "validate"
            /\ UNCHANGED <<exc, exit_status>>
    /\ UNCHANGED <<ctl, src, input, requests, dl, hol, df_silver, df_enriched,
                   df_gold, out_dirs, pending>>
    /\ UNCHANGED <<net, dq_log>>

-----------------------------------------------------------------------------
(* run_pipeline between the extraction calls *)

\* the source run_pipeline handles after s
NextSource(s) == IF s = "collisions" THEN "holidays" ELSE "weather"

\* validate_dataframe on the table just fetched, then the next extraction call,
\* or after the weather the first standardization call
Validate ==
    /\ pc = "validate"
    /\ IF validate_dataframe(Get(df_bronze[src]), critical_cols(src)) # NoError
       THEN /\ Terminate(validate_dataframe(Get(df_bronze[src]), critical_cols(src)))
            /\ dq_log' = {}
            /\ UNCHANGED <<src, input, requests>>
       ELSE /\ UNCHANGED <<exc, exit_status>>
            /\ dq_log' = dq_warnings(Get(df_bronze[src]), critical_cols(src))
            /\ IF src = "weather"
               THEN /\ pc' = "silver"
                    /\ src' = "collisions"
                    /\ input' = [NoInputs EXCEPT
                                   !["collisions"] = DataFrame(Get(df_bronze["collisions"]))]
                    /\ UNCHANGED requests
               ELSE /\ pc' = "fetch"
                    /\ src' = NextSource(src)
                    /\ requests' = 0
                    /\ UNCHANGED input
    /\ UNCHANGED <<ctl, bronze, dl, hol, mem, out_dirs, pending>>
    /\ UNCHANGED net

-----------------------------------------------------------------------------
(* Silver layer: SilverProcessor.process_collisions / _holidays / _weather *)

\* fault variant of SilverEnter: the directory is cleared before the query is collected
SilverEnterCleanFirst ==
    /\ pc = "silver"
    /\ LET res == Standardize(src, input[src])
       IN IF res.err # NoError
          THEN /\ Terminate(res.err)
               /\ UNCHANGED df_silver
          ELSE /\ df_silver' = [df_silver EXCEPT ![src] = Some(res.df)]
               /\ pc' = "silver_clean"
               /\ UNCHANGED <<exc, exit_status>>
    /\ silver_dir' = [silver_dir EXCEPT ![src] = clean_output_directory(silver_dir[src])]
    /\ UNCHANGED <<ctl, src, input, requests, bronze, dl, hol, df_bronze, df_enriched,
                   df_gold, gold_dir, pending>>
    /\ UNCHANGED <<net, dq_log>>

\* entry of process_<src>: type check, query, q.collect(); nothing is on disk yet
SilverEnter ==
    /\ pc = "silver"
    /\ LET res == Standardize(src, input[src])
       IN IF res.err # NoError
          THEN /\ Terminate(res.err)
               /\ UNCHANGED df_silver
          ELSE /\ df_silver' = [df_silver EXCEPT ![src] = Some(res.df)]
               /\ pc' = "silver_clean"
               /\ UNCHANGED <<exc, exit_status>>
    /\ UNCHANGED <<ctl, src, input, requests, bronze, dl, hol, df_bronze, df_enriched,
                   df_gold, out_dirs, pending>>
    /\ UNCHANGED <<net, dq_log>>

\* fault variant of SilverClean: the whole silver area is cleared
SilverCleanAll ==
    /\ pc = "silver_clean"
    /\ silver_dir' = [s \in Sources |-> clean_output_directory(silver_dir[s])]
    /\ pending' = PartitionFiles(src, Get(df_silver[src]), calls)
    /\ pc' = "silver_write"
    /\ UNCHANGED <<ctl, src, input, exc, exit_status, requests, bronze, dl, hol, mem,
                   gold_dir>>
    /\ UNCHANGED <<net, dq_log>>

\* clean_output_directory(output_path)
SilverClean ==
    /\ pc = "silver_clean"
    /\ silver_dir' = [silver_dir EXCEPT ![src] = clean_output_directory(silver_dir[src])]
    /\ pending' = PartitionFiles(src, Get(df_silver[src]), calls)
    /\ pc' = "silver_write"
    /\ UNCHANGED <<ctl, src, input, exc, exit_status, requests, bronze, dl, hol, mem,
                   gold_dir>>
    /\ UNCHANGED <<net, dq_log>>

\* write_parquet(output_path, partition_by=...) writes one more partition
SilverWrite ==
    /\ pc = "silver_write"
    /\ \E f \in pending :
          /\ silver_dir' = [silver_dir EXCEPT ![src] = WriteFile(silver_dir[src], f)]
          /\ pending' = pending \ {f}
    /\ UNCHANGED <<ctl, pc, src, input, exc, exit_status, requests, bronze, dl, hol,
                   mem, gold_dir>>
    /\ UNCHANGED <<net, dq_log>>

\* the arguments run_pipeline gives process_gold_data
GoldInputs(silver) == [s \in Sources |-> DataFrame(Get(silver[s]))]

\* process_<src> returns (df_silver, output_path); run_pipeline goes on with the
\* next transform, and after the weather with process_gold_data
SilverReturn ==
    /\ pc = "silver_write"
    /\ pending = {}
    /\ IF caller = "direct"
       THEN /\ Terminate(NoError)
            /\ UNCHANGED <<src, input>>
       ELSE /\ UNCHANGED <<exc, exit_status>>
            /\ IF src = "weather"
               THEN /\ pc' = "gold"
                    /\ src' = "gold"
                    /\ input' = GoldInputs(df_silver)
               ELSE /\ pc' = "silver"
                    /\ src' = NextSource(src)
                    /\ input' = [NoInputs EXCEPT
                                   ![NextSource(src)] =
                                       DataFrame(Get(df_bronze[NextSource(src)]))]
    /\ UNCHANGED <<ctl, requests, bronze, dl, hol, mem, out_dirs, pending>>
    /\ UNCHANGED <<net, dq_log>>

-----------------------------------------------------------------------------
(* Gold layer: GoldProcessor.process_gold_data *)

\* _normalize_input three times, _enrich_collisions, _aggregate_stats
GoldEnter ==
    /\ pc = "gold"
    /\ LET res == GoldCompute(input)
       IN IF res.err # NoError
          THEN /\ Terminate(res.err)
               /\ UNCHANGED <<df_enriched, df_gold>>
          ELSE /\ df_enriched' = Some(res.enriched)
               /\ df_gold' = Some(res.df)
               /\ pc' = "gold_clean"
               /\ UNCHANGED <<exc, exit_status>>
    /\ UNCHANGED <<ctl, src, input, requests, bronze, dl, hol, df_bronze, df_silver,
                   out_dirs, pending>>
    /\ UNCHANGED <<net, dq_log>>

\* clean_output_directory(gold_base_path)
GoldClean ==
    /\ pc = "gold_clean"
    /\ gold_dir' = clean_output_directory(gold_dir)
    /\ pc' = "gold_parquet"
    /\ UNCHANGED <<ctl, src, input, exc, exit_status, requests, bronze, dl, hol, mem,
                   silver_dir, pending>>
    /\ UNCHANGED <<net, dq_log>>

\* df_gold.write_parquet(parquet_path)
GoldWriteParquet ==
    /\ pc = "gold_parquet"
    /\ gold_dir' = WriteFile(gold_dir, GoldFile("daily_stats.parquet", Get(df_gold), calls))
    /\ pc' = "gold_csv"
    /\ UNCHANGED <<ctl, src, input, exc, exit_status, requests, bronze, dl, hol, mem,
                   silver_dir, pending>>
    /\ UNCHANGED <<net, dq_log>>

\* df_gold.write_csv(csv_path)
GoldWriteCsv ==
    /\ pc = "gold_csv"
    /\ gold_dir' = WriteFile(gold_dir, GoldFile("daily_stats.csv", Get(df_gold), calls))
    /\ pc' = "gold_done"
    /\ UNCHANGED <<ctl, src, input, exc, exit_status, requests, bronze, dl, hol, mem,
                   silver_dir, pending>>
    /\ UNCHANGED <<net, dq_log>>

\* process_gold_data returns; run_pipeline returns and main calls sys.exit(0)
GoldReturn ==
    /\ pc = "gold_done"
    /\ Terminate(NoError)
    /\ UNCHANGED <<ctl, src, input, requests, bronze, dl, hol, mem, out_dirs, pending>>
    /\ UNCHANGED <<net, dq_log>>

-----------------------------------------------------------------------------
(* Faults *)

\* positions at which the call is about to touch an output directory
WritePositions == {"silver_clean", "silver_write", "gold_clean", "gold_parquet", "gold_csv"}

\* the file system refuses the next directory operation
IOFail ==
    /\ pc \in WritePositions
    /\ pc = "silver_write" => pending # {}
    /\ Terminate("OSError")
    /\ UNCHANGED <<ctl, src, input, requests, bronze, dl, hol, mem, out_dirs, pending>>
    /\ UNCHANGED <<net, dq_log>>

\* Ctrl-C while the pipeline runs: KeyboardInterrupt is raised where the run stands
Interrupt ==
    /\ caller = "pipeline"
    /\ pc # "idle"
    /\ Terminate("KeyboardInterrupt")
    /\ UNCHANGED <<ctl, src, input, requests, bronze, dl, hol, mem, out_dirs, pending>>
    /\ UNCHANGED <<net, dq_log>>

-----------------------------------------------------------------------------
(* Direct calls of the layer entry points, as the unit tests make them *)

\* the argument a caller makes of the bronze file of a source: its path, the
\* table read from it, or something that is neither
BronzeInput(kind, file) ==
    [kind |-> kind,
     data |-> IF kind \in SupportedKinds /\ NotNull(file) THEN Some(read_file(file))
              ELSE Null]

\* the argument a caller makes of a silver directory
SilverInput(kind, dir) ==
    [kind |-> kind,
     data |-> IF kind = "DataFrame" \/ (kind = "Path" /\ dir # {}) THEN Some(ReadDir(dir))
              ELSE Null]

\* process_<s>(input_data, output_path) with an argument of any type
DirectSilver ==
    /\ pc = "idle"
    /\ calls < MaxCalls
    /\ \E s \in Sources, k \in InputKinds :
          /\ k = "DataFrame" => NotNull(bronze[s])
          /\ src' = s
          /\ input' = [NoInputs EXCEPT ![s] = BronzeInput(k, bronze[s])]
    /\ calls' = calls + 1
    /\ caller' = "direct"
    /\ pc' = "silver"
    /\ exc' = NoError
    /\ exit_status' = Null
    /\ FreshMemory
    /\ UNCHANGED <<bronze, silver_dir, gold_dir>>
    /\ UNCHANGED net

\* process_gold_data with arguments of any types, the tables being those of the
\* silver directories
DirectGold ==
    /\ pc = "idle"
    /\ calls < MaxCalls
    /\ \E k \in [Sources -> InputKinds] :
          input' = [s \in Sources |-> SilverInput(k[s], silver_dir[s])]
    /\ calls' = calls + 1
    /\ caller' = "direct"
    /\ pc' = "gold"
    /\ exc' = NoError
    /\ exit_status' = Null
    /\ src' = "gold"
    /\ FreshMemory
    /\ UNCHANGED <<bronze, silver_dir, gold_dir>>
    /\ UNCHANGED net

-----------------------------------------------------------------------------
(* One request through the session's adapter *)

\* the attempt ends the request: its response is handed to the caller
UrlopenReturns ==
    /\ pc = "urlopen"
    /\ \E o \in Outcomes :
          /\ o.error = "none"
          /\ ~WantsRetry(method, o, retries)
          /\ attempts' = Append(attempts, o)
    /\ Terminate(NoError)
    /\ UNCHANGED <<ctl, src, input, requests, bronze, dl, hol, mem, out_dirs, pending,
                   dq_log, method, retries>>

\* the attempt failed and is retried after the backoff sleep
UrlopenRetries ==
    /\ pc = "urlopen"
    /\ \E o \in Outcomes :
          /\ WantsRetry(method, o, retries)
          /\ ~is_exhausted(increment(retries))
          /\ attempts' = Append(attempts, o)
    /\ retries' = increment(retries)
    /\ UNCHANGED <<ctl, pc, src, input, exc, exit_status, requests, bronze, dl, hol, mem,
                   out_dirs, pending, dq_log, method>>

\* the attempt failed and no retry is left: MaxRetryError
UrlopenExhausted ==
    /\ pc = "urlopen"
    /\ \E o \in Outcomes :
          /\ WantsRetry(method, o, retries)
          /\ is_exhausted(increment(retries))
          /\ attempts' = Append(attempts, o)
          /\ Terminate(SessionError(o))
    /\ retries' = increment(retries)
    /\ UNCHANGED <<ctl, src, input, requests, bronze, dl, hol, mem, out_dirs, pending,
                   dq_log, method>>

\* the attempt failed with an error that is not retried for this method
UrlopenRaises ==
    /\ pc = "urlopen"
    /\ \E o \in Outcomes :
          /\ o.error # "none"
          /\ ~WantsRetry(method, o, retries)
          /\ attempts' = Append(attempts, o)
          /\ Terminate(SessionError(o))
    /\ UNCHANGED <<ctl, src, input, requests, bronze, dl, hol, mem, out_dirs, pending,
                   dq_log, method, retries>>

-----------------------------------------------------------------------------
(* The pipeline as a whole *)

Next ==
    \/ StartRun
    \/ DownloadCached
    \/ DownloadGetOk
    \/ DownloadGetFail
    \/ DownloadChunk
    \/ DownloadStreamFail
    \/ DownloadDone
    \/ HolidaysRequestOk
    \/ HolidaysRequestFail
    \/ HolidaysFinish
    \/ Validate
    \/ SilverEnter
    \/ SilverClean
    \/ SilverWrite
    \/ SilverReturn
    \/ GoldEnter
    \/ GoldClean
    \/ GoldWriteParquet
    \/ GoldWriteCsv
    \/ GoldReturn
    \/ IOFail
    \/ Interrupt
    \/ DirectSilver
    \/ DirectGold

Spec == Init /\ [][Next]_vars

-----------------------------------------------------------------------------
(* One standardization transform on every raw table of up to MaxRows rows *)

\* raw collisions rows: dates null, well-formed (a Tuesday of 2019, a Sunday of 2023,
\* a Monday and a Saturday of 2024), in the wrong format and impossible; borough and the injured count present or missing
RawCollisionRows ==
    {Collision(d, b, Some("10001"), n) :
        d \in {Null, Some(MDY(12, 31, 2023)), Some(MDY(1, 1, 2024)), Some(MDY(1, 1, 2019)),
               Some(MDY(1, 6, 2024)), Some(YMD(2024, 1, 1)), Some(MDY(2, 30, 2024))},
        b \in {Null, Some("MANHATTAN")},
        n \in {Null, Some(1)}}

\* raw holiday rows: dates null, well-formed and in the wrong format
RawHolidayRows ==
    {Holiday(d, n, t) :
        d \in {Null, Some(YMD(2024, 1, 1)), Some(YMD(2024, 12, 25)), Some(MDY(1, 1, 2024))},
        n \in {Some("New Year"), Some("Christmas")},
        t \in {Null, Some(<<"National">>), Some(<<"National", "Christian">>)}}

\* raw weather rows: dates null, before, on and after the cutoff and in the wrong
\* format; readings plain, padded and negative, missing, and not a number; weather
\* type flags set, unset, missing and not a number
RawWeatherRows ==
    {Weather(d, r[1], r[2], r[3], r[4], f[1], f[2]) :
        d \in {Null, Some(YMD(2019, 12, 31)), Some(YMD(2020, 1, 1)), Some(YMD(2024, 1, 2)),
               Some(MDY(1, 2, 2024))},
        r \in {<<Num(250), Num(150), Num(50), Num(0)>>,
               <<Padded(-50), Num(-100), Null, Padded(10)>>,
               <<NotANumber, Null, Num(0), Null>>},
        f \in {<<Num(1), Num(0)>>, <<NotANumber, Null>>}}
    \cup
    {Weather(Some(YMD(2024, 1, 2)), Num(250), Num(150), Num(50), Num(0), f[1], f[2]) :
        f \in {<<Null, Padded(1)>>, <<Num(0), Num(0)>>, <<Num(0), Null>>}}

RawRows(s) ==
    IF s = "collisions" THEN RawCollisionRows
    ELSE IF s = "holidays" THEN RawHolidayRows
    ELSE RawWeatherRows

\* process_<s> is called on an in-memory table, nothing else having run
InitSilver ==
    /\ calls = 1
    /\ caller = "direct"
    /\ pc = "silver"
    /\ \E s \in Sources :
          /\ src = s
          /\ \E df \in SeqsUpTo(RawRows(s), MaxRows) :
                input = [NoInputs EXCEPT ![s] = DataFrame(df)]
    /\ exc = NoError
    /\ exit_status = Null
    /\ requests = 0
    /\ bronze = NoTables
    /\ dl = Null
    /\ hol_i = 1
    /\ hol_acc = <<>>
    /\ hol_ok = <<>>
    /\ df_bronze = NoTables
    /\ df_silver = NoTables
    /\ df_enriched = Null
    /\ df_gold = Null
    /\ silver_dir = [s \in Sources |-> {}]
    /\ gold_dir = {}
    /\ pending = {}
    /\ dq_log = {}
    /\ NoRequest

NextSilver ==
    \/ SilverEnter
    \/ SilverClean
    \/ SilverWrite
    \/ SilverReturn

SpecSilver == InitSilver /\ [][NextSilver]_vars

-----------------------------------------------------------------------------
(* The standardization, enrichment and aggregation chain of one run, on raw
   tables that passed the extraction phase *)

\* collisions on a holiday with weather (twice, the same bucket but for the injured
\* count), on a day without holiday and weather, on the first day of 2020 and on the
\* last day of 2019
JoinCollisionRows ==
    {Collision(Some(MDY(1, 1, 2024)), Some("MANHATTAN"), Some("10001"), Some(1)),
     Collision(Some(MDY(1, 1, 2020)), Some("BRONX"), Some("10451"), Some(0)),
     Collision(Some(MDY(1, 1, 2024)), Some("MANHATTAN"), Some("10001"), Some(2)),
     Collision(Some(MDY(6, 1, 2024)), Null, Null, Null),
     Collision(Some(MDY(12, 31, 2019)), Some("QUEENS"), Some("11101"), Some(1))}

NewYear(types) == Holiday(Some(YMD(2024, 1, 1)), Some("New Year"), types)

\* holiday tables: one holiday, the same holiday twice, two holidays on one date,
\* a holiday without types, a low-impact holiday on another date, a holiday of 2023
JoinHolidayTables ==
    {<<NewYear(Some(<<"National", "Public">>))>>,
     <<NewYear(Some(<<"Public">>)), NewYear(Some(<<"Public">>))>>,
     <<NewYear(Some(<<"National", "Public">>)),
       Holiday(Some(YMD(2024, 1, 1)), Some("School Break"), Some(<<"School">>))>>,
     <<NewYear(Null)>>,
     <<Holiday(Some(YMD(2024, 6, 1)), Some("Observed Day"), Some(<<"Observance">>))>>,
     <<Holiday(Some(YMD(2023, 12, 25)), Some("Christmas"), Some(<<"Bank">>))>>}

\* weather tables: one reading, a reading before the cutoff only, two readings for
\* one date, and readings with a missing temperature
JoinWeatherTables ==
    {<<Weather(Some(YMD(2024, 1, 1)), Num(100), Num(50), Num(0), Num(0), Num(0), Num(0))>>,
     <<Weather(Some(YMD(2019, 12, 31)), Num(100), Num(0), Num(0), Num(0), Num(0), Num(0))>>,
     <<Weather(Some(YMD(2024, 1, 1)), Num(100), Num(50), Num(0), Num(0), Num(0), Num(0)),
       Weather(Some(YMD(2024, 1, 1)), Num(120), Num(50), Num(0), Num(0), Num(0), Num(0))>>,
     <<Weather(Some(YMD(2024, 1, 1)), Null, Null, Num(50), Num(10), Num(1), Null),
       Weather(Some(YMD(2024, 6, 1)), Num(300), Num(200), Null, Null, Null, Null)>>}

\* run_pipeline right after the extraction phase: the three raw tables are in
\* memory and in the bronze cache, and process_collisions is about to be called
InitGold ==
    /\ calls = 1
    /\ caller = "pipeline"
    /\ pc = "silver"
    /\ src = "collisions"
    /\ \E c \in SeqsUpTo(JoinCollisionRows, MaxJoinRows) \ {<<>>},
          h \in JoinHolidayTables, w \in JoinWeatherTables :
          /\ df_bronze = [collisions |-> Some(c), holidays |-> Some(h), weather |-> Some(w)]
          /\ bronze = df_bronze
          /\ input = [NoInputs EXCEPT !["collisions"] = DataFrame(c)]
    /\ exc = NoError
    /\ exit_status = Null
    /\ requests = 0
    /\ dl = Null
    /\ hol_i = Len(Years) + 1
    /\ hol_acc = Get(df_bronze["holidays"])
    /\ hol_ok = <<hol_acc>>
    /\ df_silver = NoTables
    /\ df_enriched = Null
    /\ df_gold = Null
    /\ silver_dir = [s \in Sources |-> {}]
    /\ gold_dir = {}
    /\ pending = {}
    /\ dq_log = {}
    /\ NoRequest

NextGold ==
    \/ SilverEnter
    \/ SilverClean
    \/ SilverWrite
    \/ SilverReturn
    \/ GoldEnter
    \/ GoldClean
    \/ GoldWriteParquet
    \/ GoldWriteCsv
    \/ GoldReturn

SpecGold == InitGold /\ [][NextGold]_vars

-----------------------------------------------------------------------------
(* One session request of any method against every behaviour of the network *)

InitSession ==
    /\ calls = 1
    /\ caller = "direct"
    /\ pc = "urlopen"
    /\ src = "collisions"
    /\ input = NoInputs
    /\ exc = NoError
    /\ exit_status = Null
    /\ requests = 1
    /\ bronze = NoTables
    /\ dl = Null
    /\ hol_i = 1
    /\ hol_acc = <<>>
    /\ hol_ok = <<>>
    /\ df_bronze = NoTables
    /\ df_silver = NoTables
    /\ df_enriched = Null
    /\ df_gold = Null
    /\ silver_dir = [s \in Sources |-> {}]
    /\ gold_dir = {}
    /\ pending = {}
    /\ dq_log = {}
    /\ method \in Methods
    /\ retries = RetryTotal
    /\ attempts = <<>>

NextSession ==
    \/ UrlopenReturns
    \/ UrlopenRetries
    \/ UrlopenExhausted
    \/ UrlopenRaises

SpecSession == InitSession /\ [][NextSession]_vars

-----------------------------------------------------------------------------
(* Properties *)

\* C1: a download_file_from_url call that finds its destination on disk issues no
\* request and leaves the file as it is, and when it returns it returns the table
\* parsed from the file; this holds for every such call of every run.
C1_CacheHitIsLocal ==
    [][(pc = "fetch" /\ src \in DownloadSources /\ NotNull(bronze[src]))
          => /\ requests' = 0
             /\ bronze' = bronze
             /\ pc' # "idle" =>
                   /\ pc' = "validate"
                   /\ df_bronze'[src] = Some(Get(bronze[src]))]_vars

\* a second run has taken the collisions from the cache, having fetched nothing
C1_Witness ==
    /\ calls = 2
    /\ pc = "validate"
    /\ src = "collisions"
    /\ requests = 0
    /\ NotNull(df_bronze[src])
    /\ Len(Get(df_bronze[src])) = 2

\* C2: when a download whose destination did not exist ends with an error, before
\* the first byte or between two chunks, no file is left at the destination and the
\* error the caller gets is the network error.
C2_FailedDownloadLeavesNoFile ==
    [][(/\ pc \in {"fetch", "stream"}
        /\ src \in DownloadSources
        /\ pc = "fetch" => IsNull(bronze[src])
        /\ pc' = "idle"
        /\ exc' # "KeyboardInterrupt")
          => /\ IsNull(bronze'[src])
             /\ exc' = "RequestException"]_vars

\* a download of a two-row body has failed after the response arrived
C2_Witness ==
    /\ pc = "idle"
    /\ exc = "RequestException"
    /\ src \in DownloadSources
    /\ NotNull(dl)
    /\ Len(Get(dl)) = 2
    /\ IsNull(bronze[src])

\* C3: fetch_holidays issues one request per year; a failed year does not end the
\* call; once every year was tried the call fails with RuntimeError exactly when
\* nothing was accumulated, and otherwise returns the rows of the years that
\* succeeded, in order, and writes them to the destination.
C3_HolidaysPerYear ==
    [][(pc = "fetch" /\ src = "holidays" /\ exc' # "KeyboardInterrupt")
          => IF hol_i <= Len(Years)
             THEN /\ pc' = "fetch"
                  /\ requests' = hol_i
                  /\ hol_i' = hol_i + 1
             ELSE /\ requests = Len(Years)
                  /\ IF Flatten(hol_ok) = <<>>
                     THEN /\ pc' = "idle"
                          /\ exc' = "RuntimeError"
                          /\ bronze' = bronze
                     ELSE /\ pc' = "validate"
                          /\ exc' = NoError
                          /\ df_bronze'["holidays"] = Some(Flatten(hol_ok))
                          /\ bronze'["holidays"] = Some(Flatten(hol_ok))]_vars

\* fetch_holidays has returned the rows of the one year out of two that succeeded
C3_Witness ==
    /\ pc = "validate"
    /\ src = "holidays"
    /\ requests = 2
    /\ Len(hol_ok) = 1
    /\ df_bronze["holidays"] = Some(hol_ok[1])
    /\ bronze["holidays"] = df_bronze["holidays"]

\* the output a completed standardization of s leaves in its directory
SilverOutput(s) == PartitionFiles(s, Get(df_silver[s]), calls)

\* the output a completed process_gold_data leaves in the gold directory
GoldOutput ==
    {GoldFile("daily_stats.parquet", Get(df_gold), calls),
     GoldFile("daily_stats.csv", Get(df_gold), calls)}

\* C4: a pipeline run has no exit status while it runs and ends with exactly one of
\* 0, 1 and 130: 0 only without an exception and with the three silver tables and
\* the two gold files written, 130 exactly on a keyboard interrupt, 1 exactly on
\* any other exception.
C4_ExitOutcomes ==
    /\ (caller = "pipeline" /\ pc # "idle") => IsNull(exit_status)
    /\ (caller = "pipeline" /\ pc = "idle") =>
          /\ exit_status \in {Some(0), Some(1), Some(130)}
          /\ exit_status = Some(0) <=> exc = NoError
          /\ exit_status = Some(130) <=> exc = "KeyboardInterrupt"
          /\ exit_status = Some(1) <=> exc \notin {NoError, "KeyboardInterrupt"}
          /\ exit_status = Some(0) =>
                /\ \A s \in Sources : NotNull(df_silver[s]) /\ silver_dir[s] = SilverOutput(s)
                /\ NotNull(df_gold)
                /\ gold_dir = GoldOutput

\* a run was interrupted while it wrote the gold files
C4_Witness ==
    /\ caller = "pipeline"
    /\ pc = "idle"
    /\ exit_status = Some(130)
    /\ src = "gold"
    /\ Cardinality(gold_dir) = 1

\* C5 (as claimed): once a table of a run is empty, be it a raw table or a
\* standardized one, the run writes no gold file and does not end with status 0.
C5_EmptySourceHalts ==
    (/\ caller = "pipeline"
     /\ \E s \in Sources : df_bronze[s] = Some(<<>>) \/ df_silver[s] = Some(<<>>))
       => /\ \A f \in gold_dir : f.call # calls
          /\ exit_status # Some(0)

\* C6 (as claimed): every change of an output directory takes it to the complete
\* new output, so that it never holds anything but a complete output.
C6_AtomicReplace ==
    [][/\ \A s \in Sources :
             silver_dir'[s] # silver_dir[s] =>
                 NotNull(df_silver[s]) /\ silver_dir'[s] = SilverOutput(s)
       /\ gold_dir' # gold_dir => NotNull(df_gold) /\ gold_dir' = GoldOutput]_vars

\* the standardization of s has returned in the current call
SilverStageDone(s) == NotNull(df_silver[s]) /\ (src = s => pc = "idle" /\ exc = NoError)

\* process_gold_data has written both files in the current call
GoldStageDone == NotNull(df_gold) /\ (pc = "gold_done" \/ (pc = "idle" /\ exc = NoError))

\* C6 (amended): once the stage that writes a directory has completed, and so after a
\* completed run, the directory holds exactly the complete new output and no file of
\* an earlier call; and at no time does a directory hold files of two calls.
C6_ReplacedWhenStageDone ==
    /\ \A s \in Sources : SilverStageDone(s) => silver_dir[s] = SilverOutput(s)
    /\ GoldStageDone => gold_dir = GoldOutput
    /\ \A s \in Sources : \A f, g \in silver_dir[s] : f.call = g.call
    /\ \A f, g \in gold_dir : f.call = g.call

\* a second call has replaced the holidays directory by a single partition
C6_Witness ==
    /\ calls = 2
    /\ SilverStageDone("holidays")
    /\ Cardinality(silver_dir["holidays"]) = 1
    /\ \A f \in silver_dir["holidays"] : f.call = 2

\* C7: the total_accidents of the fact rows add up to the number of enriched rows,
\* rows without weather (null max_temp and min_temp) included.
C7_AggregationConserves ==
    NotNull(df_gold) =>
        SeqSum([i \in DOMAIN Get(df_gold) |-> Get(df_gold)[i].total_accidents]) = Len(Get(df_enriched))

\* an aggregation of two rows without temperatures into one fact row
C7_Witness ==
    /\ NotNull(df_gold)
    /\ Len(Get(df_enriched)) = 2
    /\ \A i \in DOMAIN Get(df_enriched) : IsNull(Get(df_enriched)[i].max_temp)
    /\ Len(Get(df_gold)) = 1
    /\ Get(df_gold)[1].total_accidents = 2

\* C8 (as claimed): the enriched table has exactly one row per standardized
\* collision dated 2020 or later.
C8_OneRowPerCollision ==
    (NotNull(df_enriched) /\ NotNull(df_silver["collisions"])) =>
        Len(Get(df_enriched)) = Len(SelectSeq(Get(df_silver["collisions"]), GoldYearFilter))

\* C9: when process_collisions returns, its rows are the input rows with a non-null
\* CRASH DATE, all of them and in order, whatever their year, and each has a parsed
\* date.
C9_OnlyNullDatesDropped ==
    (src = "collisions" /\ NotNull(df_silver["collisions"])) =>
        LET in  == Get(input["collisions"].data)
            out == Get(df_silver["collisions"])
        IN /\ Len(out) = Cardinality({i \in DOMAIN in : NotNull(in[i].crash_date)})
           /\ [i \in DOMAIN out |-> out[i].crash_date]
                 = SelectSeq([i \in DOMAIN in |-> in[i].crash_date], NotNull)
           /\ \A i \in DOMAIN out : NotNull(out[i].date)

\* process_collisions has kept a row of 2019 and dropped a row without date
C9_Witness ==
    /\ src = "collisions"
    /\ NotNull(df_silver["collisions"])
    /\ \E i \in DOMAIN Get(input["collisions"].data) :
          IsNull(Get(input["collisions"].data)[i].crash_date)
    /\ Len(Get(df_silver["collisions"])) = 1
    /\ Get(df_silver["collisions"])[1].year = Some(2019)

\* the current layer call was given an argument that is neither a table nor a path
UnsupportedInput ==
    IF pc = "silver" THEN input[src].kind \notin SupportedKinds
    ELSE \E s \in Sources : input[s].kind \notin SupportedKinds

\* C10: a standardization transform or process_gold_data entered with an argument
\* that is neither a table nor a path ends at once with TypeError: nothing is
\* computed, and no output directory is cleared or written.
C10_TypeErrorBeforeAnyEffect ==
    [][(pc \in {"silver", "gold"} /\ UnsupportedInput)
          => /\ pc' = "idle"
             /\ exc' = "TypeError"
             /\ silver_dir' = silver_dir
             /\ gold_dir' = gold_dir
             /\ df_silver' = df_silver
             /\ df_enriched' = df_enriched
             /\ df_gold' = df_gold]_vars

\* process_<s> was called with an integer while its directory held a table
C10_Witness ==
    /\ pc = "idle"
    /\ exc = "TypeError"
    /\ src \in Sources
    /\ input[src].kind = "int"
    /\ silver_dir[src] # {}

\* the standardized weather rows whose date is that of the enriched row e
WeatherOn(e) == {w \in Range(Get(df_silver["weather"])) : w.date = e.date}

\* C11: an enriched row whose date has no weather row has null max_temp and min_temp
\* and false has_rain, has_snow and is_foggy; an enriched row whose date has weather
\* carries the temperatures and flags of one of the weather rows of that date.
C11_WeatherContext ==
    (NotNull(df_enriched) /\ NotNull(df_silver["weather"])) =>
        \A i \in DOMAIN Get(df_enriched) :
            LET e == Get(df_enriched)[i]
            IN IF WeatherOn(e) = {}
               THEN /\ e.max_temp = Null
                    /\ e.min_temp = Null
                    /\ e.has_rain = Some(FALSE)
                    /\ e.has_snow = Some(FALSE)
                    /\ e.is_foggy = Some(FALSE)
               ELSE \E w \in WeatherOn(e) :
                       /\ e.max_temp = w.temp_max_c
                       /\ e.min_temp = w.temp_min_c
                       /\ e.has_rain = w.has_rain
                       /\ e.has_snow = w.has_snow
                       /\ e.is_foggy = w.is_foggy

\* one collision with a weather reading of 10.0 degrees, one without any reading
C11_Witness ==
    /\ NotNull(df_enriched)
    /\ NotNull(df_silver["weather"])
    /\ \E i, k \in DOMAIN Get(df_enriched) :
          /\ WeatherOn(Get(df_enriched)[i]) = {}
          /\ Get(df_enriched)[i].max_temp = Null
          /\ WeatherOn(Get(df_enriched)[k]) # {}
          /\ Get(df_enriched)[k].max_temp = Some(100)

\* the standardized holidays whose date is that of the enriched row e
HolidaysOn(e) == {h \in Range(Get(df_silver["holidays"])) : h.date = e.date}

\* the type list, null or not, names one of the two types
NamesOneOf(types, x, y) == NotNull(types) /\ {x, y} \cap Range(Get(types)) # {}

\* C12: each impact flag of an enriched row depends only on the type list of the
\* holiday the row was matched with: high on "Public" or "Bank", partial on "School"
\* or "Authorities", low on "Optional" or "Observance"; a row whose date has no
\* holiday has three false flags and the name "Non-Holiday".
C12_ImpactFlags ==
    (NotNull(df_enriched) /\ NotNull(df_silver["holidays"])) =>
        \A i \in DOMAIN Get(df_enriched) :
            LET e == Get(df_enriched)[i]
            IN /\ e.high_impact_holiday = Some(NamesOneOf(e.types, "Public", "Bank"))
               /\ e.partial_impact_holiday = Some(NamesOneOf(e.types, "School", "Authorities"))
               /\ e.low_impact_holiday = Some(NamesOneOf(e.types, "Optional", "Observance"))
               /\ IF HolidaysOn(e) = {}
                  THEN /\ e.types = Null
                       /\ e.holiday_name = Some("Non-Holiday")
                       /\ e.high_impact_holiday = Some(FALSE)
                       /\ e.partial_impact_holiday = Some(FALSE)
                       /\ e.low_impact_holiday = Some(FALSE)
                  ELSE \E h \in HolidaysOn(e) :
                          /\ e.types = h.types
                          /\ e.holiday_name = IF IsNull(h.holiday_name)
                                               THEN Some("Non-Holiday")
                                               ELSE h.holiday_name

\* a low-impact holiday matched by one collision, and a collision on no holiday
C12_Witness ==
    /\ NotNull(df_enriched)
    /\ NotNull(df_silver["holidays"])
    /\ \E i, k \in DOMAIN Get(df_enriched) :
          /\ HolidaysOn(Get(df_enriched)[i]) = {}
          /\ Get(df_enriched)[i].holiday_name = Some("Non-Holiday")
          /\ Get(df_enriched)[k].low_impact_holiday = Some(TRUE)
          /\ Get(df_enriched)[k].high_impact_holiday = Some(FALSE)

\* attempt i of the current request was followed by another attempt
Reattempted(i) == i < Len(attempts)

\* C13 (as claimed): a request is attempted at most 3 times in total, a re-attempt
\* follows only a 500, 502, 503 or 504 response to a HEAD, GET or OPTIONS request,
\* and a request whose budget is used up has ended with an error.
C13_ThreeAttemptsOn5xx ==
    /\ Len(attempts) <= 3
    /\ \A i \in DOMAIN attempts :
          Reattempted(i) =>
              /\ attempts[i].status \in {500, 502, 503, 504}
              /\ method \in {"HEAD", "GET", "OPTIONS"}
    /\ Len(attempts) = 3 => pc = "idle" /\ exc # NoError

\* C13 (amended): a request is attempted at most 4 times in total, the first attempt
\* and 3 retries; a re-attempt follows only a failed attempt: a connection error (for
\* any method) or, for HEAD, GET and OPTIONS only, a read error, a 500, 502, 503 or
\* 504 response, or a 413, 429 or 503 response with a Retry-After header; after the
\* fourth attempt the request has ended, with an error if that attempt ended in an
\* error or, for HEAD, GET and OPTIONS, in a 500, 502, 503 or 504 response.
C13_FourAttempts ==
    /\ Len(attempts) <= 4
    /\ \A i \in DOMAIN attempts :
          Reattempted(i) =>
              \/ attempts[i].error = "connect"
              \/ /\ method \in {"HEAD", "GET", "OPTIONS"}
                 /\ \/ attempts[i].error = "read"
                    \/ attempts[i].status \in {500, 502, 503, 504}
                    \/ attempts[i].status \in {413, 429, 503} /\ attempts[i].retry_after
    /\ Len(attempts) = 4 =>
          /\ pc = "idle"
          /\ \/ attempts[4].error # "none"
             \/ /\ method \in {"HEAD", "GET", "OPTIONS"}
                /\ attempts[4].status \in {500, 502, 503, 504}
             => exc \in {"RetryError", "ConnectionError"}

\* a GET answered four times with 503 has ended with RetryError
C13_Witness ==
    /\ method = "GET"
    /\ Len(attempts) = 4
    /\ \A i \in DOMAIN attempts : attempts[i] = Response(503, FALSE)
    /\ pc = "idle"
    /\ exc = "RetryError"

\* the date a year-month-day text stands for, null for a null text
DateOfText(t) ==
    IF IsNull(t) THEN Null
    ELSE Some([y |-> Get(t).f[1], m |-> Get(t).f[2], d |-> Get(t).f[3]])

\* C14: when process_holidays returns, no two of its rows are identical, and its rows
\* are the distinct (date, name, types) combinations of the input, each once: exact
\* duplicates collapse, rows that differ in any field are all kept.
C14_HolidaysDeduplicated ==
    (src = "holidays" /\ NotNull(df_silver["holidays"])) =>
        LET in  == Get(input["holidays"].data)
            out == Get(df_silver["holidays"])
        IN /\ \A i, k \in DOMAIN out : i # k => out[i] # out[k]
           /\ Len(out) = Cardinality({<<in[i].date, in[i].name, in[i].types>> : i \in DOMAIN in})
           /\ {<<out[i].date, out[i].holiday_name, out[i].types>> : i \in DOMAIN out}
                 = {<<DateOfText(in[i].date), in[i].name, in[i].types>> : i \in DOMAIN in}

\* process_holidays has returned one row for two identical input rows
C14_Witness ==
    /\ src = "holidays"
    /\ NotNull(df_silver["holidays"])
    /\ Len(Get(input["holidays"].data)) = 2
    /\ Get(input["holidays"].data)[1] = Get(input["holidays"].data)[2]
    /\ Len(Get(df_silver["holidays"])) = 1

\* a DATE cell holds a year-month-day text of a day on or after 2020-01-01
OnOrAfterCutoff(date) ==
    /\ NotNull(date)
    /\ Get(date).sep = "-"
    /\ 10000 * Get(date).f[1] + 100 * Get(date).f[2] + Get(date).f[3] >= 20200101

\* the rows of the table given to process_weather that C15 says are kept
WeatherKept == SelectSeq(Get(input["weather"].data), LAMBDA r : OnOrAfterCutoff(r.DATE))

\* C15: when process_weather returns, its rows are, in order, the input rows whose
\* DATE is non-null and on or after 2020-01-01, the cutoff day included; every other
\* row is dropped.
C15_WeatherCutoff ==
    (src = "weather" /\ NotNull(df_silver["weather"])) =>
        LET out == Get(df_silver["weather"])
        IN /\ Len(out) = Len(WeatherKept)
           /\ \A i \in DOMAIN out : out[i].date = DateOfText(WeatherKept[i].DATE)

\* of a row of 2019-12-31 and a row of 2020-01-01 only the second was kept
C15_Witness ==
    /\ src = "weather"
    /\ NotNull(df_silver["weather"])
    /\ Len(Get(input["weather"].data)) = 2
    /\ Get(input["weather"].data)[1].DATE = Some(YMD(2019, 12, 31))
    /\ Len(Get(df_silver["weather"])) = 1
    /\ Get(df_silver["weather"])[1].date = Some([y |-> 2020, m |-> 1, d |-> 1])

\* a reading cell holds the text of an integer, with or without blanks around it
IsIntegerText(cell) == NotNull(cell) /\ NotNull(Get(cell).val)

\* the integer a reading cell holds
IntegerOf(cell) == Get(Get(cell).val)

\* C16: for every row process_weather returns, a TMAX, TMIN or PRCP given as the text
\* of an integer n of tenths, blanks and sign allowed, comes out as n/10: temp_max_c,
\* temp_min_c and precipitation_mm then hold n tenths.
C16_TenthsToUnits ==
    (src = "weather" /\ NotNull(df_silver["weather"])) =>
        LET out == Get(df_silver["weather"])
        IN \A i \in DOMAIN out :
              LET r == WeatherKept[i]
              IN /\ IsIntegerText(r.TMAX) => out[i].temp_max_c = Some(IntegerOf(r.TMAX))
                 /\ IsIntegerText(r.TMIN) => out[i].temp_min_c = Some(IntegerOf(r.TMIN))
                 /\ IsIntegerText(r.PRCP) => out[i].precipitation_mm = Some(IntegerOf(r.PRCP))

\* " -50 " has become -5.0 degrees and "50" 5.0 mm
C16_Witness ==
    /\ src = "weather"
    /\ NotNull(df_silver["weather"])
    /\ Len(Get(df_silver["weather"])) = 2
    /\ WeatherKept[1].TMAX = Padded(-50)
    /\ Get(df_silver["weather"])[1].temp_max_c = Some(-50)
    /\ WeatherKept[2].PRCP = Num(50)
    /\ Get(df_silver["weather"])[2].precipitation_mm = Some(50)

\* a weather type cell holds the text of the integer 1
IsOne(cell) == IsIntegerText(cell) /\ IntegerOf(cell) = 1

\* a reading cell holds the text of an integer greater than 0
IsPositive(cell) == IsIntegerText(cell) /\ IntegerOf(cell) > 0

\* C17: for every row process_weather returns the three flags are non-null: is_foggy
\* is true iff WT01 or WT02 is 1, a missing or unparseable cell counting as not 1;
\* has_rain iff PRCP is present and greater than 0; has_snow likewise for SNOW. And
\* process_weather fails on a kept row only for a cell that is present and does not
\* parse, never for a missing one.
C17_ConditionFlags ==
    /\ (src = "weather" /\ NotNull(df_silver["weather"])) =>
          LET out == Get(df_silver["weather"])
          IN \A i \in DOMAIN out :
                LET r == WeatherKept[i]
                IN /\ out[i].is_foggy = Some(IsOne(r.WT01) \/ IsOne(r.WT02))
                   /\ out[i].has_rain = Some(IsPositive(r.PRCP))
                   /\ out[i].has_snow = Some(IsPositive(r.SNOW))
    /\ (src = "weather" /\ pc = "idle" /\ exc = "ComputeError") =>
          \E i \in DOMAIN WeatherKept :
             \E c \in {"TMAX", "TMIN", "PRCP", "SNOW"} :
                NotNull(WeatherKept[i][c]) /\ ~IsIntegerText(WeatherKept[i][c])

\* fog from a padded WT02 alone beside a row without flags, rain or snow readings
C17_Witness ==
    /\ src = "weather"
    /\ NotNull(df_silver["weather"])
    /\ Len(Get(df_silver["weather"])) = 2
    /\ WeatherKept[1].WT01 = Null
    /\ WeatherKept[1].WT02 = Padded(1)
    /\ Get(df_silver["weather"])[1].is_foggy = Some(TRUE)
    /\ WeatherKept[2].PRCP = Null
    /\ WeatherKept[2].WT01 = NotANumber
    /\ Get(df_silver["weather"])[2].is_foggy = Some(FALSE)
    /\ Get(df_silver["weather"])[2].has_rain = Some(FALSE)

\* Zeller's congruence: 0 for a Saturday, 1 for a Sunday, ... 6 for a Friday
Zeller(dt) ==
    LET mm == IF dt.m < 3 THEN dt.m + 12 ELSE dt.m
        yy == IF dt.m < 3 THEN dt.y - 1 ELSE dt.y
        K  == yy % 100
        J  == yy \div 100
    IN (dt.d + ((13 * (mm + 1)) \div 5) + K + (K \div 4) + (J \div 4) + 5 * J) % 7

\* the date a month/day/year text stands for
DateOfCrashText(t) == [y |-> Get(t).f[3], m |-> Get(t).f[1], d |-> Get(t).f[2]]

\* C18: in every row process_collisions returns, is_weekend is true iff the row's
\* date is a Saturday or a Sunday, and year and month are those of that date, which
\* is the date its CRASH DATE text stands for.
C18_WeekendAndPartitionKeys ==
    (src = "collisions" /\ NotNull(df_silver["collisions"])) =>
        \A i \in DOMAIN Get(df_silver["collisions"]) :
            LET r == Get(df_silver["collisions"])[i]
            IN /\ r.date = Some(DateOfCrashText(r.crash_date))
               /\ r.is_weekend = Some(Zeller(Get(r.date)) \in {0, 1})
               /\ r.year = Some(Get(r.date).y)
               /\ r.month = Some(Get(r.date).m)

\* Sunday 2023-12-31 and Saturday 2024-01-06 are weekend days of two partitions
C18_Witness ==
    /\ src = "collisions"
    /\ NotNull(df_silver["collisions"])
    /\ Len(Get(df_silver["collisions"])) = 2
    /\ Get(df_silver["collisions"])[1].crash_date = Some(MDY(12, 31, 2023))
    /\ Get(df_silver["collisions"])[1].is_weekend = Some(TRUE)
    /\ Get(df_silver["collisions"])[1].month = Some(12)
    /\ Get(df_silver["collisions"])[2].crash_date = Some(MDY(1, 6, 2024))
    /\ Get(df_silver["collisions"])[2].is_weekend = Some(TRUE)
    /\ Get(df_silver["collisions"])[2].year = Some(2024)

\* the critical column of the table of source s, as the model names it
CriticalColumn(s) ==
    IF s = "collisions" THEN "crash_date" ELSE IF s = "holidays" THEN "date" ELSE "DATE"

\* the critical column of a table with rows is missing, or holds a null
CriticalColumnPoor(s, df) ==
    \/ CriticalColumn(s) \notin DOMAIN df[1]
    \/ \E i \in DOMAIN df : IsNull(df[i][CriticalColumn(s)])

\* C19: a validate_dataframe call of the pipeline raises iff the table has no rows;
\* on a table with rows whose critical column is missing or holds nulls it logs a
\* warning and returns; the table is the same after the call, and the pipeline goes
\* on to its next step, the next extraction or the first standardization.
C19_SoftValidation ==
    [][(pc = "validate" /\ exc' # "KeyboardInterrupt") =>
          LET df == Get(df_bronze[src])
          IN /\ df_bronze' = df_bronze
             /\ bronze' = bronze
             /\ exc' = "ValueError" <=> Len(df) = 0
             /\ Len(df) = 0 => pc' = "idle"
             /\ Len(df) > 0 =>
                   /\ exc' = NoError
                   /\ CriticalColumnPoor(src, df) <=>
                         \E w \in dq_log' : w.col = CriticalColumn(src)
                   /\ IF src = "weather"
                      THEN /\ pc' = "silver"
                           /\ src' = "collisions"
                           /\ input'["collisions"].data = df_bronze["collisions"]
                      ELSE /\ pc' = "fetch"
                           /\ src' # src]_vars

\* the collisions table, whose only row has no CRASH DATE, passed the check with a
\* warning and the run went on to fetch the holidays
C19_Witness ==
    /\ caller = "pipeline"
    /\ pc = "fetch"
    /\ src = "holidays"
    /\ dq_log = {[col |-> "crash_date", kind |-> "nulls"]}
    /\ Len(Get(df_bronze["collisions"])) = 1
    /\ Get(df_bronze["collisions"])[1].crash_date = Null

\* a download_file_from_url call for s that found no file at its destination ends
\* with this step, and not by Ctrl-C
DownloadEnds(s) ==
    /\ pc = "stream" \/ (pc = "fetch" /\ IsNull(bronze[s]))
    /\ src = s
    /\ pc' \notin {"fetch", "stream"}
    /\ exc' # "KeyboardInterrupt"

\* C20: over any sequence of download calls and network outcomes, a file that exists
\* at a destination and is not being written by the running call is never modified,
\* replaced or deleted; a call leaves at its destination either nothing or the
\* complete body of one response, never a part of it, and nothing when it failed; a
\* call that finds no file issues a request.
C20_CacheFileIntegrity ==
    [][\A s \in DownloadSources :
          /\ (NotNull(bronze[s]) /\ ~(pc = "stream" /\ src = s)) => bronze'[s] = bronze[s]
          /\ DownloadEnds(s) =>
                /\ IsNull(bronze'[s]) \/ Get(bronze'[s]) \in Remote(s)
                /\ exc' # NoError => IsNull(bronze'[s])
          /\ (pc = "fetch" /\ src = s /\ IsNull(bronze[s]) /\ exc' # "KeyboardInterrupt")
                => requests' = requests + 1]_vars

\* the second call found no weather file, the first having left none, fetched it
\* whole and left the collisions file of the cache as it was
C20_Witness ==
    /\ calls = 2
    /\ caller = "pipeline"
    /\ pc = "validate"
    /\ src = "weather"
    /\ requests = 1
    /\ NotNull(bronze["collisions"])
    /\ Len(Get(bronze["collisions"])) = 2
    /\ NotNull(bronze["weather"])
    /\ Get(bronze["weather"]) \in RemoteWeather
    /\ Len(Get(bronze["weather"])) = 1

\* the standardization of s has returned in the current run and a later stage is
\* in progress, or was when the run ended
StageCompleted(s) == caller = "pipeline" /\ NotNull(df_silver[s]) /\ src # s

\* C21: wherever a run stands, and so wherever it is interrupted or fails, the
\* directory of every stage that completed in this run holds that stage's complete
\* output; a step of the run changes no directory but that of the stage in progress.
C21_CompletedStagesStayComplete ==
    [][caller' = "pipeline" =>
          /\ \A s \in Sources : StageCompleted(s)' => silver_dir'[s] = SilverOutput(s)'
          /\ \A s \in Sources : silver_dir'[s] # silver_dir[s] => src = s
          /\ gold_dir' # gold_dir => src = "gold"]_vars

\* a second run failed after it had cleared the weather directory: the collisions
\* and holidays directories hold the complete output of this run
C21_Witness ==
    /\ calls = 2
    /\ caller = "pipeline"
    /\ pc = "idle"
    /\ exc = "OSError"
    /\ src = "weather"
    /\ silver_dir["weather"] = {}
    /\ \A s \in {"collisions", "holidays"} :
          /\ StageCompleted(s)
          /\ silver_dir[s] = SilverOutput(s)
          /\ silver_dir[s] # {}
          /\ \A f \in silver_dir[s] : f.call = 2

\* the first day the enrichment keeps
EnrichmentCutoff == [y |-> 2020, m |-> 1, d |-> 1]

\* the collision is dated, and on or after the cutoff
DatedOnOrAfterCutoff(c) == NotNull(c.date) /\ ~DateLess(Get(c.date), EnrichmentCutoff)

\* the enriched row e carries every column of the standardized collision c unchanged
IsFrom(e, c) == \A f \in DOMAIN c : e[f] = c[f]

\* C22: every standardized collision dated on or after 2020-01-01 is in the enriched
\* table at least once, matched or not; every enriched row is such a collision; and
\* the holiday and the weather columns of an enriched row are either those of "no
\* match" or those of a holiday, a weather row, of exactly the row's date.
C22_EnrichmentKeepsRecent ==
    (NotNull(df_enriched) /\ \A s \in Sources : NotNull(df_silver[s])) =>
        LET col == Get(df_silver["collisions"])
            en  == Get(df_enriched)
        IN /\ \A i \in DOMAIN col :
                 DatedOnOrAfterCutoff(col[i]) => \E k \in DOMAIN en : IsFrom(en[k], col[i])
           /\ \A k \in DOMAIN en :
                 /\ DatedOnOrAfterCutoff(en[k])
                 /\ \E i \in DOMAIN col : IsFrom(en[k], col[i])
                 /\ \/ /\ en[k].types = Null
                       /\ en[k].year_right = Null
                       /\ en[k].month_right = Null
                       /\ en[k].holiday_name = Some("Non-Holiday")
                    \/ \E h \in HolidaysOn(en[k]) :
                          /\ en[k].types = h.types
                          /\ en[k].year_right = h.year
                          /\ en[k].month_right = h.month
                          /\ en[k].holiday_name = fill_null(h.holiday_name, "Non-Holiday")
                 /\ \/ /\ en[k].temp_max_c = Null
                       /\ en[k].temp_min_c = Null
                       /\ en[k].has_rain = Some(FALSE)
                       /\ en[k].has_snow = Some(FALSE)
                       /\ en[k].is_foggy = Some(FALSE)
                    \/ \E w \in WeatherOn(en[k]) :
                          /\ en[k].temp_max_c = w.temp_max_c
                          /\ en[k].temp_min_c = w.temp_min_c
                          /\ en[k].has_rain = fill_null(w.has_rain, FALSE)
                          /\ en[k].has_snow = fill_null(w.has_snow, FALSE)
                          /\ en[k].is_foggy = fill_null(w.is_foggy, FALSE)

\* a collision of 2020-01-01 without holiday and weather is kept, one of 2019-12-31
\* is not
C22_Witness ==
    /\ NotNull(df_enriched)
    /\ \A s \in Sources : NotNull(df_silver[s])
    /\ Len(Get(df_silver["collisions"])) = 2
    /\ \E i \in DOMAIN Get(df_silver["collisions"]) :
          Get(df_silver["collisions"])[i].date = Some([y |-> 2019, m |-> 12, d |-> 31])
    /\ Len(Get(df_enriched)) = 1
    /\ Get(df_enriched)[1].date = Some(EnrichmentCutoff)
    /\ HolidaysOn(Get(df_enriched)[1]) = {}
    /\ WeatherOn(Get(df_enriched)[1]) = {}

\* the enriched row e has the grouping tuple of the fact row g, field by field
SameBucket(e, g) ==
    /\ g.key[1] = e.date
    /\ g.key[2] = e.borough
    /\ g.key[3] = e.zip_code
    /\ g.key[4] = e.is_weekend
    /\ g.key[5] = e.holiday_name
    /\ g.key[6] = e.high_impact_holiday
    /\ g.key[7] = e.partial_impact_holiday
    /\ g.key[8] = e.low_impact_holiday
    /\ g.key[9] = e.has_rain
    /\ g.key[10] = e.has_snow
    /\ g.key[11] = e.is_foggy
    /\ g.key[12] = e.max_temp
    /\ g.key[13] = e.min_temp

\* the enriched rows behind the fact row g
BucketRows(g) == SelectSeq(Get(df_enriched), LAMBDA e : SameBucket(e, g))

\* C23: the daily fact table has exactly one row for each grouping tuple of the
\* enriched table and no other row; total_accidents of a fact row is the number of
\* enriched rows with its tuple, each metric is the sum of that metric over these
\* rows, the row's date is the tuple's date; and the rows are in ascending date order.
C23_OneFactRowPerBucket ==
    (NotNull(df_gold) /\ NotNull(df_enriched)) =>
        LET g  == Get(df_gold)
            en == Get(df_enriched)
        IN /\ \A k \in DOMAIN en :
                 Cardinality({i \in DOMAIN g : SameBucket(en[k], g[i])}) = 1
           /\ \A i \in DOMAIN g :
                 /\ Len(g[i].key) = 13
                 /\ g[i].date = g[i].key[1]
                 /\ BucketRows(g[i]) # <<>>
                 /\ g[i].total_accidents = Len(BucketRows(g[i]))
                 /\ \A c \in METRIC_COLS :
                       g[i].metrics[c] =
                          SeqSum([k \in DOMAIN BucketRows(g[i]) |->
                                     Get(BucketRows(g[i])[k].metrics[c])])
           /\ \A i, j \in DOMAIN g :
                 i < j => ~DateLess(Get(g[j].date), Get(g[i].date))

\* two collisions of one bucket, with 1 and 2 persons injured, make one fact row
\* with 2 accidents and 3 persons injured
C23_Witness ==
    /\ NotNull(df_gold)
    /\ NotNull(df_enriched)
    /\ Len(Get(df_enriched)) = 2
    /\ Len(Get(df_gold)) = 1
    /\ Get(df_gold)[1].total_accidents = 2
    /\ Get(df_gold)[1].metrics["number_of_persons_injured"] = 3
    /\ Get(df_gold)[1].key[5] = Some("New Year")

\* positions of a run in its extraction phase: a download, the holiday requests,
\* the check of the table just fetched
ExtractionPositions == {"fetch", "stream", "validate"}

\* the three raw tables are in memory and none is empty
ExtractionPassed ==
    \A t \in Sources : NotNull(df_bronze[t]) /\ Get(df_bronze[t]) # <<>>

\* the three standardized tables are in memory and on disk
StandardizationDone ==
    \A s \in Sources : NotNull(df_silver[s]) /\ silver_dir[s] = SilverOutput(s)

\* C24: a step of a pipeline run changes a silver directory only after the
\* extraction phase, with the three raw tables fetched and none of them empty, and
\* changes the gold directory only in the gold stage, with the three standardized
\* tables computed and persisted; so the start of a run and every step of its
\* extraction phase, a failure included, leave the silver and gold directories as
\* they were, and every step of its standardization phase leaves the gold directory.
C24_StagesInOrder ==
    [][caller' = "pipeline" =>
          /\ silver_dir' # silver_dir =>
                pc \notin ExtractionPositions \cup {"idle"} /\ ExtractionPassed
          /\ gold_dir' # gold_dir =>
                pc # "idle" /\ src = "gold" /\ StandardizationDone
          /\ pc \in ExtractionPositions \cup {"idle"} =>
                silver_dir' = silver_dir /\ gold_dir' = gold_dir
          /\ (pc \in {"silver", "silver_clean", "silver_write"} /\ src # "gold") =>
                gold_dir' = gold_dir]_vars

\* a second run failed in its extraction phase: the silver and gold directories
\* hold the complete output of the first run
C24_Witness ==
    /\ calls = 2
    /\ caller = "pipeline"
    /\ pc = "idle"
    /\ exc \notin {NoError, "KeyboardInterrupt"}
    /\ IsNull(df_bronze["weather"])
    /\ \A s \in Sources :
          /\ IsNull(df_silver[s])
          /\ silver_dir[s] # {}
          /\ \A f \in silver_dir[s] : f.call = 1
    /\ Cardinality(gold_dir) = 2
    /\ \A f \in gold_dir : f.call = 1

\* the call is computing a stage's table: the query of a standardization is being
\* collected, or the enrichment and aggregation are running
Computing == pc \in {"silver", "gold"}

\* C25: the step that computes a stage's table, whether it returns the table or
\* raises, changes no output directory; a silver directory changes only in the stage
\* of its source and with that stage's table computed, the gold directory only with
\* the enriched and the fact table computed. A stage that raises while computing
\* so leaves its directory with the files it held before.
C25_ComputedBeforeCleared ==
    [][/\ Computing => silver_dir' = silver_dir /\ gold_dir' = gold_dir
       /\ \A s \in Sources :
             silver_dir'[s] # silver_dir[s] =>
                 src = s /\ NotNull(df_silver[s]) /\ ~Computing
       /\ gold_dir' # gold_dir =>
             src = "gold" /\ NotNull(df_enriched) /\ NotNull(df_gold) /\ ~Computing]_vars

\* the second run got a holiday whose date text does not parse: process_holidays
\* raised while collecting, and the holidays directory holds the files of the first
\* run
C25_Witness ==
    /\ calls = 2
    /\ caller = "pipeline"
    /\ pc = "idle"
    /\ exc = "ComputeError"
    /\ src = "holidays"
    /\ IsNull(df_silver["holidays"])
    /\ silver_dir["holidays"] # {}
    /\ \A f \in silver_dir["holidays"] : f.call = 1
    /\ \A f \in silver_dir["collisions"] : f.call = 2

=============================================================================
